---- MODULE Spec2Model ----
(***************************************************************************)
(* Verification model of the zawgl graph database core:                    *)
(*   - the paged B+-tree node store (BTreeNodeStore over NodeRecordPool     *)
(*     and the records manager),                                            *)
(*   - the VF2 sub-graph isomorphism state (push / pop / feasible /         *)
(*     candidate rule) and the backtracking match built from it.            *)
(* Every operation of the code is one operator, translated statement by     *)
(* statement; the records manager, the record types of store/records.rs     *)
(* and the logical BTreeNode are external to the files modelled and follow  *)
(* the specification's data model.                                          *)
(***************************************************************************)
EXTENDS Integers, Sequences, FiniteSets, TLC

VARIABLES
    rm,        \* records manager: [recs, root, free]
    mem,       \* the client's in-memory BTreeNode (or NoNode)
    hist,      \* what the last store operation was, its input and outcome
    ops,       \* number of store operations done so far
    conc,      \* concurrent save / retrieve_node: the saver's pending writes, the reader's pool
    vf,        \* VF2 State: [g0, g1, s0, s1, stack]
    vh,        \* VF2 history of the last push / pop
    mt,        \* the backtracking match: [pg, tg, stack of frames, emitted, ...]
    sys        \* the component of the later specifications (graph proxy, record codec,
               \* index, request handler, in-memory graph) with its history

vars == <<rm, mem, hist, ops, conc, vf, vh, mt, sys>>

(***************************************************************************)
(* Sizes.  KEY_SIZE and NB_CELL are the constants of buf_config (a file    *)
(* outside the modelled sources), scaled down; NODE_PTR_SIZE is the width  *)
(* of a u64 and COUNTER_SIZE the width of the u16 count of a list cell.    *)
(***************************************************************************)
KEY_SIZE == 20
NB_CELL == 4
NODE_PTR_SIZE == 8
COUNTER_SIZE == 2

\* Bounds of the explored behaviours.
MaxOps == 4
MaxChainSteps == 12

(***************************************************************************)
(* Bytes.                                                                   *)
(***************************************************************************)
\* v >> (8 * k)
RECURSIVE ShiftRightBytes(_, _)
ShiftRightBytes(v, k) == IF k = 0 THEN v ELSE ShiftRightBytes(v \div 256, k - 1)

\* u64::to_be_bytes / u16::to_be_bytes
to_be_bytes(v, n) == [i \in 1..n |-> ShiftRightBytes(v, n - i) % 256]

RECURSIVE from_be_bytes(_)
from_be_bytes(b) ==
    IF Len(b) = 0 THEN 0
    ELSE 256 * from_be_bytes(SubSeq(b, 1, Len(b) - 1)) + b[Len(b)]

\* buf[lo..hi) of a 0-based byte buffer
Slice(buf, lo, hi) == SubSeq(buf, lo + 1, hi)

\* buf with buf[off .. off+Len(src)) replaced by src (copy_from_slice)
CopyInto(buf, off, src) ==
    [i \in 1..Len(buf) |->
        IF i > off /\ i <= off + Len(src) THEN src[i - off] ELSE buf[i]]

ZeroBytes(n) == [i \in 1..n |-> 0]

ZeroKey == ZeroBytes(KEY_SIZE)

\* position of the first NUL byte, or the length of the buffer
StrEnd(key_buf) ==
    IF \E i \in 1..Len(key_buf) : key_buf[i] = 0
    THEN (CHOOSE i \in 1..Len(key_buf) :
            key_buf[i] = 0 /\ \A j \in 1..(i - 1) : key_buf[j] # 0) - 1
    ELSE Len(key_buf)

append_key(vkey, key_buf) == vkey \o SubSeq(key_buf, 1, StrEnd(key_buf))

RECURSIVE ReadPtrs(_, _, _)
ReadPtrs(buf, i, counter) ==
    IF i >= counter THEN <<>>
    ELSE <<from_be_bytes(Slice(buf, COUNTER_SIZE + i * NODE_PTR_SIZE,
                               COUNTER_SIZE + i * NODE_PTR_SIZE + NODE_PTR_SIZE))>>
         \o ReadPtrs(buf, i + 1, counter)

append_list_ptr(ptrs, buf) ==
    ptrs \o ReadPtrs(buf, 0, from_be_bytes(Slice(buf, 0, COUNTER_SIZE)))

insert_data_ptr(payload, offset, data_ptr) ==
    CopyInto(payload, offset, to_be_bytes(data_ptr, NODE_PTR_SIZE))

update_counter(payload, count) ==
    CopyInto(payload, 0, to_be_bytes(count, COUNTER_SIZE))

(***************************************************************************)
(* Cell and node records (store/records.rs).                                *)
(***************************************************************************)
NewCellRecord ==
    [active |-> FALSE, has_overflow |-> FALSE, is_list_ptr |-> FALSE,
     node_ptr |-> 0, overflow_cell_ptr |-> 0, key |-> ZeroKey]

chain_with_cell_location(cell, loc) ==
    [cell EXCEPT !.node_ptr = loc[1], !.overflow_cell_ptr = loc[2]]

get_next_cell_location(cell) == <<cell.node_ptr, cell.overflow_cell_ptr>>

NewNodeRecord ==
    [leaf |-> FALSE, root |-> FALSE, has_next |-> FALSE, overflow |-> FALSE,
     cells |-> [i \in 1..NB_CELL |-> NewCellRecord],
     ptr |-> 0, next_free |-> 0]

\* BNodeRecord::is_full: no inactive slot is left
is_full(rec) == \A i \in 1..NB_CELL : rec.cells[i].active

\* the record's slot of cell index c (cell indices are 0-based)
CellAt(rec, c) == rec.cells[c + 1]

SetCellAt(rec, c, cell) == [rec EXCEPT !.cells[c + 1] = cell]

(***************************************************************************)
(* Records manager (external): fixed-size record IO plus a header payload  *)
(* holding the root node id and the head of the free-cell chain.  Record   *)
(* ids are allocated in sequence from 1 (0 is the code's null pointer).    *)
(* An operation runs on a state s = [rm, pool, fuel, eff]: fuel is the     *)
(* number of records-manager calls that still succeed (the next one        *)
(* returns Err), eff the writes done so far, in order.                     *)
(***************************************************************************)
EmptyRM == [recs |-> <<>>, root |-> 0, free |-> 0]

NoFailure == 1000

OpState(r, fuel) == [rm |-> r, pool |-> <<>>, fuel |-> fuel, eff |-> <<>>]

PoolIds(s) == DOMAIN s.pool

RmIsEmpty(s) == Len(s.rm.recs) = 0

\* a failed call: v tells why ("none": the operation returned None; "panic": an
\* index out of range; "hang": a loop that does not end)
Fail(s) == [ok |-> FALSE, s |-> s, v |-> "none"]

Panic(s) == [ok |-> FALSE, s |-> s, v |-> "panic"]

Hang(s) == [ok |-> FALSE, s |-> s, v |-> "hang"]

Ret(s, v) == [ok |-> TRUE, s |-> s, v |-> v]

\* `?` on an Option: the continuation K runs on a call that succeeded
Bind(r, K(_)) == IF r.ok THEN K(r) ELSE r

\* a local binding, `let x = ...;`
With(x, K(_)) == K(x)

\* RecordsManager::load through the pool (load_node_record_clone / _ref / _mut)
load_node_record(s, id) ==
    IF id \in PoolIds(s) THEN Ret(s, s.pool[id])
    ELSE IF s.fuel = 0 \/ id \notin 1..Len(s.rm.recs) THEN Fail(s)
    ELSE Ret([s EXCEPT !.pool = (id :> s.rm.recs[id]) @@ @, !.fuel = @ - 1],
             s.rm.recs[id])

\* a write through the &mut reference load_node_record_mut returned
PoolPut(s, id, rec) == [s EXCEPT !.pool = (id :> rec) @@ @]

create_node_record(s, rec) ==
    IF s.fuel = 0 THEN Fail(s)
    ELSE Ret([s EXCEPT !.rm.recs = Append(@, rec),
                       !.pool = ((Len(s.rm.recs) + 1) :> rec) @@ @,
                       !.fuel = @ - 1,
                       !.eff = Append(@, [kind |-> "create", id |-> Len(s.rm.recs) + 1,
                                          rec |-> rec])],
             Len(s.rm.recs) + 1)

set_first_free_list_node_ptr(s, id) ==
    [s EXCEPT !.rm.free = id, !.eff = Append(@, [kind |-> "free", id |-> id, rec |-> NewNodeRecord])]

set_root_node_ptr(s, id) ==
    [s EXCEPT !.rm.root = id, !.eff = Append(@, [kind |-> "root", id |-> id, rec |-> NewNodeRecord])]

\* one RecordsManager::save of save_all_node_records
SaveRecord(s, id) ==
    IF s.fuel = 0 THEN Fail(s)
    ELSE Ret([s EXCEPT !.rm.recs[id] = s.pool[id],
                       !.fuel = @ - 1,
                       !.eff = Append(@, [kind |-> "save", id |-> id, rec |-> s.pool[id]])],
             0)

\* save_all_node_records, the pool's records taken in the order `order`
RECURSIVE save_all_node_records(_, _)
save_all_node_records(s, order) ==
    IF order = <<>> THEN Ret(s, 0)
    ELSE Bind(SaveRecord(s, Head(order)),
              LAMBDA r : save_all_node_records(r.s, Tail(order)))

RECURSIVE SortedSeq(_)
SortedSeq(S) ==
    IF S = {} THEN <<>>
    ELSE With(CHOOSE x \in S : \A y \in S : x <= y,
              LAMBDA m : <<m>> \o SortedSeq(S \ {m}))

\* An iteration order of the pool's HashMap: the ids of `first` that are in
\* the pool, in that order, then the others
InSeq(q, x) == \E i \in 1..Len(q) : q[i] = x

PoolOrder(s, first) ==
    SelectSeq(first, LAMBDA x : x \in PoolIds(s))
    \o SortedSeq({x \in PoolIds(s) : ~InSeq(first, x)})

(***************************************************************************)
(* Free-cell iterator and pool operations (store/pool.rs).                  *)
(***************************************************************************)
OverflowNodeRecord == [NewNodeRecord EXCEPT !.overflow = TRUE]

create_overflow_node(s) == create_node_record(s, OverflowNodeRecord)

\* depth bounds the walk along next_free_cells_node_ptr
RECURSIVE load_or_create_free_cells_overflow_node(_, _)
load_or_create_free_cells_overflow_node(s, depth) ==
    IF RmIsEmpty(s) THEN
        Bind(create_node_record(s, OverflowNodeRecord),
             LAMBDA c : Ret(set_first_free_list_node_ptr(c.s, c.v), c.v))
    ELSE IF s.rm.free = 0 THEN
        Bind(create_overflow_node(s),
             LAMBDA c : Ret(set_first_free_list_node_ptr(c.s, c.v), c.v))
    ELSE
        With(load_node_record(s, s.rm.free),
             LAMBDA l :
                IF l.ok /\ is_full(l.v)
                THEN IF depth = 0 THEN Hang(l.s)
                     ELSE load_or_create_free_cells_overflow_node(
                              set_first_free_list_node_ptr(l.s, l.v.next_free), depth - 1)
                ELSE Ret(l.s, s.rm.free))

\* the first inactive slot of a record (0-based), NB_CELL when there is none
FirstInactive(rec) ==
    IF is_full(rec) THEN NB_CELL
    ELSE (CHOOSE i \in 1..NB_CELL :
            ~rec.cells[i].active /\ \A j \in 1..(i - 1) : rec.cells[j].active) - 1

\* an iterator that yields the first slot of the free-cell node
FreeCellIteratorNext_first_slot(s) ==
    Bind(load_or_create_free_cells_overflow_node(s, MaxChainSteps),
         LAMBDA f :
            With(load_node_record(f.s, f.v),
                 LAMBDA l : IF l.ok THEN Ret(l.s, <<f.v, 0>>) ELSE Fail(l.s)))

\* FreeCellIterator::next
FreeCellIteratorNext(s) ==
    Bind(load_or_create_free_cells_overflow_node(s, MaxChainSteps),
         LAMBDA f :
            With(load_node_record(f.s, f.v),
                 LAMBDA l :
                    IF l.ok /\ FirstInactive(l.v) < NB_CELL
                    THEN Ret(l.s, <<f.v, FirstInactive(l.v)>>)
                    ELSE Fail(l.s)))

insert_cell_in_free_slot(s, cell_record) ==
    Bind(FreeCellIteratorNext(s),
         LAMBDA n :
            Bind(load_node_record(n.s, n.v[1]),
                 LAMBDA l : Ret(PoolPut(l.s, n.v[1], SetCellAt(l.v, n.v[2], cell_record)),
                                n.v)))

\* The walk loads each record and marks a copy of the cell inactive: the
\* pool's record is left as it was.
RECURSIVE disable_cell_records(_, _, _)
disable_cell_records(s, loc, steps) ==
    IF loc[1] = 0 THEN Ret(s, "done")
    ELSE IF steps = 0 THEN Ret(s, "hang")
    ELSE Bind(load_node_record(s, loc[1]),
              LAMBDA l :
                 IF loc[2] >= NB_CELL THEN Panic(l.s)
                 ELSE disable_cell_records(
                          l.s,
                          get_next_cell_location([CellAt(l.v, loc[2]) EXCEPT !.active = FALSE]),
                          steps - 1))

(***************************************************************************)
(* BTreeNodeStore: writing cells (store/mod.rs).                            *)
(***************************************************************************)
Reverse(q) == [i \in 1..Len(q) |-> q[Len(q) + 1 - i]]

\* create_overflow_cells: chains each cell to the location of the one written
\* before it; v is <<location of the last cell written, the cells as chained>>
RECURSIVE create_overflow_cells_loop(_, _, _, _)
create_overflow_cells_loop(s, cells, prev_cell_loc, done) ==
    IF cells = <<>> THEN Ret(s, <<prev_cell_loc, done>>)
    ELSE Bind(insert_cell_in_free_slot(s, chain_with_cell_location(Head(cells), prev_cell_loc)),
              LAMBDA r :
                 create_overflow_cells_loop(
                     r.s, Tail(cells), r.v,
                     Append(done, chain_with_cell_location(Head(cells), prev_cell_loc))))

create_overflow_cells(s, reverse_cell_records, cell_node_ptr) ==
    create_overflow_cells_loop(s, reverse_cell_records, <<cell_node_ptr, 0>>, <<>>)

ActiveCellRecord == [NewCellRecord EXCEPT !.active = TRUE]

\* CellRecord::new() with set_is_active and set_is_list_ptr.  The payload of
\* a cell record has key_size bytes: buf_config's KEY_SIZE, a parameter of
\* the operators that write cells, which are examined for several sizes.
ListPtrCellRecord(key_size) ==
    [NewCellRecord EXCEPT !.active = TRUE, !.is_list_ptr = TRUE, !.key = ZeroBytes(key_size)]

\* one key fragment of create_cell
KeyCellRecord(key_size, key_vec, offset) ==
    IF offset + key_size > Len(key_vec)
    THEN [ActiveCellRecord EXCEPT
            !.key = CopyInto(CopyInto(ZeroBytes(key_size), 0,
                                      Slice(key_vec, offset, Len(key_vec))),
                             Len(key_vec) - offset, <<0>>)]
    ELSE [ActiveCellRecord EXCEPT !.key = Slice(key_vec, offset, offset + key_size)]

\* the key fragments of create_cell
RECURSIVE KeyCellRecords(_, _, _)
KeyCellRecords(key_size, key_vec, offset) ==
    IF offset >= Len(key_vec) THEN <<>>
    ELSE <<KeyCellRecord(key_size, key_vec, offset)>>
         \o KeyCellRecords(key_size, key_vec, offset + key_size)

\* the list cell c.rec with data_ptr written at c.off and the count cnt
ClosedListCell(c, data_ptr) ==
    [c.rec EXCEPT !.key = update_counter(insert_data_ptr(c.rec.key, c.off, data_ptr), c.cnt + 1)]

\* the posting-list fragments of create_cell: c is the loop's state
RECURSIVE ListCellRecords(_, _, _, _)
ListCellRecords(key_size, data_ptrs, i, c) ==
    IF i > Len(data_ptrs) THEN c.out
    ELSE IF c.off + NODE_PTR_SIZE + NODE_PTR_SIZE >= key_size
    THEN ListCellRecords(key_size, data_ptrs, i + 1,
             [rec |-> ListPtrCellRecord(key_size), off |-> COUNTER_SIZE, cnt |-> 0,
              out |-> Append(c.out, ClosedListCell(c, data_ptrs[i]))])
    ELSE IF i = Len(data_ptrs)
    THEN Append(c.out, ClosedListCell(c, data_ptrs[i]))
    ELSE ListCellRecords(key_size, data_ptrs, i + 1,
             [rec |-> [c.rec EXCEPT !.key = insert_data_ptr(@, c.off, data_ptrs[i])],
              off |-> c.off + NODE_PTR_SIZE, cnt |-> c.cnt + 1, out |-> c.out])

\* the flag on every record, the chain's last one included
SetHasOverflowFrom_all(q, from) ==
    [i \in 1..Len(q) |-> [q[i] EXCEPT !.has_overflow = TRUE]]

\* set_has_overflow on cell_records[index] for index in 1..nb_records (0-based)
SetHasOverflowFrom(q, from) ==
    [i \in 1..Len(q) |-> IF i >= from THEN [q[i] EXCEPT !.has_overflow = TRUE] ELSE q[i]]

\* Option<NodeId>: <<>> is None, <<p>> is Some(p)
None == <<>>

Some(p) == <<p>>

unwrap_or_default(o) == IF o = None THEN 0 ELSE o[1]

\* the records of create_cell before they are chained
CellRecordsOf(key_size, cell) ==
    IF Len(cell.data_ptrs) > 0
    THEN KeyCellRecords(key_size, cell.key, 0)
         \o ListCellRecords(key_size, cell.data_ptrs, 1,
                [rec |-> ListPtrCellRecord(key_size), off |-> COUNTER_SIZE, cnt |-> 0,
                 out |-> <<>>])
    ELSE KeyCellRecords(key_size, cell.key, 0)

\* the second half of create_cell, on the records reversed and flagged
ChainCellRecords(s, cell, rev) ==
    Bind(create_overflow_cells(s, SubSeq(rev, 1, Len(rev) - 1), unwrap_or_default(cell.node_ptr)),
         LAMBDA o : Ret(o.s, <<chain_with_cell_location(rev[Len(rev)], o.v[1])>>
                             \o Reverse(o.v[2])))

\* create_cell: v is the cell's records, primary fragment first
create_cell(key_size, s, cell) ==
    With(CellRecordsOf(key_size, cell),
         LAMBDA cell_records :
            IF Len(cell_records) > 1
            THEN ChainCellRecords(s, cell, SetHasOverflowFrom(Reverse(cell_records), 2))
            ELSE IF Len(cell_records) = 1 /\ cell.node_ptr # None
            THEN Ret(s, <<[cell_records[1] EXCEPT !.node_ptr = cell.node_ptr[1]]>>)
            ELSE Ret(s, cell_records))

\* the loop of create over the node's cells
RECURSIVE CreateCells(_, _, _, _)
CreateCells(s, cells, cell_id, node_record) ==
    IF cell_id >= Len(cells) THEN Ret(s, node_record)
    ELSE Bind(create_cell(KEY_SIZE, s, cells[cell_id + 1]),
              LAMBDA c :
                 IF c.v = <<>> THEN Fail(c.s)
                 ELSE IF cell_id >= NB_CELL THEN Panic(c.s)
                 ELSE CreateCells(c.s, cells, cell_id + 1,
                                  SetCellAt(node_record, cell_id, c.v[1])))

\* the record create starts from
NodeRecordOf(node) ==
    [NewNodeRecord EXCEPT
        !.leaf = node.is_leaf, !.root = node.is_root,
        !.has_next = (node.node_ptr # None),
        !.ptr = unwrap_or_default(node.node_ptr)]

\* the end of create and of save: the pool written back
SaveAllAs(s, first, v) ==
    Bind(save_all_node_records(s, PoolOrder(s, first)), LAMBDA sv : Ret(sv.s, v))

\* BTreeNodeStore::create; `first` fixes the iteration order of the pool's
\* HashMap.  v is the id given to the node.
create(r, node, fuel, first) ==
    Bind(CreateCells(OpState(r, fuel), node.cells, 0, NodeRecordOf(node)),
         LAMBDA cs :
            Bind(create_node_record(cs.s, cs.v),
                 LAMBDA c :
                    SaveAllAs(IF node.is_root THEN set_root_node_ptr(c.s, c.v) ELSE c.s,
                              first, c.v)))

\* the caller's node after create: `node.set_id(id)` follows
\* create_node_record and comes before save_all_node_records, so the node
\* has its id also when the save fails
created_node(r, node, fuel) ==
    With(Bind(CreateCells(OpState(r, fuel), node.cells, 0, NodeRecordOf(node)),
              LAMBDA cs : create_node_record(cs.s, cs.v)),
         LAMBDA c : IF c.ok THEN [node EXCEPT !.id = Some(c.v)] ELSE node)

(***************************************************************************)
(* BTreeNodeStore: reading (store/mod.rs).                                  *)
(***************************************************************************)
\* The loop of load_overflow_cell_records.  curr_node is the record loaded
\* before the loop; v is [cells, cycle].  The record is loaded again only
\* if curr_node_id differs from overflow_cell.node_ptr after it was assigned
\* overflow_cell.node_ptr.
RECURSIVE LoadOverflowLoop(_, _, _, _, _, _)
LoadOverflowLoop(s, curr_node, curr_node_id, curr_overflow_cell_id, cells, steps) ==
    IF steps = 0 THEN Hang(s)
    ELSE IF curr_overflow_cell_id >= NB_CELL THEN Panic(s)
    ELSE
    With(CellAt(curr_node, curr_overflow_cell_id),
         LAMBDA overflow_cell :
            IF overflow_cell.has_overflow
               /\ curr_overflow_cell_id = overflow_cell.overflow_cell_ptr
            THEN Ret(s, [cells |-> cells, cycle |-> TRUE])
            ELSE Bind(IF overflow_cell.node_ptr # overflow_cell.node_ptr
                      THEN load_node_record(s, overflow_cell.node_ptr)
                      ELSE Ret(s, curr_node),
                      LAMBDA l :
                         IF ~overflow_cell.has_overflow
                         THEN Ret(l.s, [cells |-> Append(cells, overflow_cell), cycle |-> FALSE])
                         ELSE LoadOverflowLoop(l.s, l.v, overflow_cell.node_ptr,
                                               overflow_cell.overflow_cell_ptr,
                                               Append(cells, overflow_cell), steps - 1)))

load_overflow_cell_records(s, root_cell_record) ==
    IF root_cell_record.has_overflow THEN
        Bind(load_node_record(s, root_cell_record.node_ptr),
             LAMBDA l : LoadOverflowLoop(l.s, l.v, root_cell_record.node_ptr,
                                         root_cell_record.overflow_cell_ptr, <<>>,
                                         MaxChainSteps))
    ELSE Ret(s, [cells |-> <<>>, cycle |-> FALSE])

\* the loop of retrieve_overflow_cells: acc is [vkey, ptrs, is_leaf_cell]
RECURSIVE FoldOverflowCells(_, _, _)
FoldOverflowCells(cells, i, acc) ==
    IF i > Len(cells) THEN acc
    ELSE FoldOverflowCells(cells, i + 1,
            IF cells[i].is_list_ptr
            THEN [acc EXCEPT !.is_leaf_cell = TRUE, !.ptrs = append_list_ptr(@, cells[i].key)]
            ELSE [acc EXCEPT !.vkey = append_key(@, cells[i].key)])

\* Cell::new(key, ptr, data_ptrs, is_active)
NewCell(key, ptr, data_ptrs, is_active) ==
    [key |-> key, node_ptr |-> ptr, data_ptrs |-> data_ptrs, is_active |-> is_active,
     changed |-> FALSE]

\* the Cell built from what retrieve_overflow_cells found
CellOf(cell_record, overflow_cells, acc) ==
    IF acc.is_leaf_cell
    THEN NewCell(acc.vkey, None, acc.ptrs, cell_record.active)
    ELSE IF Len(overflow_cells) > 0
    THEN NewCell(acc.vkey, Some(overflow_cells[Len(overflow_cells)].node_ptr), <<>>,
                 cell_record.active)
    ELSE NewCell(acc.vkey, Some(cell_record.node_ptr), <<>>, cell_record.active)

\* retrieve_cell with retrieve_overflow_cells
retrieve_cell(s, cell_record) ==
    Bind(load_overflow_cell_records(s, cell_record),
         LAMBDA o :
            Ret(o.s, CellOf(cell_record, o.v.cells,
                            FoldOverflowCells(o.v.cells, 1,
                                [vkey |-> append_key(<<>>, cell_record.key), ptrs |-> <<>>,
                                 is_leaf_cell |-> FALSE]))))

RECURSIVE RetrieveCells(_, _, _, _)
RetrieveCells(s, node, i, cells) ==
    IF i > NB_CELL THEN Ret(s, cells)
    ELSE IF ~node.cells[i].active THEN RetrieveCells(s, node, i + 1, cells)
    ELSE Bind(retrieve_cell(s, node.cells[i]),
              LAMBDA c : RetrieveCells(c.s, node, i + 1, Append(cells, c.v)))

\* BTreeNode::new_with_id / BTreeNode::new: a logical node with an empty change log
NewNode(id, node_ptr, is_leaf, is_root, cells) ==
    [id |-> id, node_ptr |-> node_ptr, is_leaf |-> is_leaf, is_root |-> is_root,
     cells |-> cells, log |-> <<>>]

\* BTreeNodeStore::retrieve_node on the operation state s
RetrieveNodeIn(s, nid) ==
    Bind(load_node_record(s, nid),
         LAMBDA l :
            Bind(RetrieveCells(l.s, l.v, 1, <<>>),
                 LAMBDA cs :
                    Ret(cs.s, NewNode(Some(nid), IF l.v.has_next THEN Some(l.v.ptr) ELSE None,
                                      l.v.leaf, l.v.root, cs.v))))

retrieve_node(r, nid) == RetrieveNodeIn(OpState(r, NoFailure), nid)

(***************************************************************************)
(* BTreeNodeStore::save and its phases (store/mod.rs).                      *)
(***************************************************************************)
\* v is the node's id
select_root_node(s, node) ==
    IF node.id = None THEN Fail(s)
    ELSE Bind(load_node_record(s, node.id[1]),
              LAMBDA l :
                 IF ~node.is_root
                 THEN Ret(PoolPut(l.s, node.id[1], [l.v EXCEPT !.root = FALSE]), node.id[1])
                 ELSE Ret(set_root_node_ptr(l.s, node.id[1]), node.id[1]))

\* CellChangeContext
CtxAdded == [old_cell_id |-> 0, is_added |-> TRUE]

CtxOld(index) == [old_cell_id |-> index, is_added |-> FALSE]

\* the active prefix of the record's slots, as contexts
RECURSIVE OldContexts(_, _)
OldContexts(rec, index) ==
    IF index < NB_CELL /\ CellAt(rec, index).active
    THEN <<CtxOld(index)>> \o OldContexts(rec, index + 1)
    ELSE <<>>

RemoveAt(q, index) == SubSeq(q, 1, index) \o SubSeq(q, index + 2, Len(q))

InsertAt(q, index, x) == SubSeq(q, 1, index) \o <<x>> \o SubSeq(q, index + 1, Len(q))

\* replay of the node's change log: acc is [ctx, del, panic]
RECURSIVE ReplayChangeLog(_, _, _)
ReplayChangeLog(log, i, acc) ==
    IF i > Len(log) \/ acc.panic THEN acc
    ELSE IF log[i].kind = "remove" THEN
        IF log[i].index >= Len(acc.ctx) THEN [acc EXCEPT !.panic = TRUE]
        ELSE ReplayChangeLog(log, i + 1,
                [acc EXCEPT
                    !.del = IF acc.ctx[log[i].index + 1].is_added THEN @
                            ELSE Append(@, acc.ctx[log[i].index + 1].old_cell_id),
                    !.ctx = RemoveAt(@, log[i].index)])
    ELSE
        IF log[i].index > Len(acc.ctx) THEN [acc EXCEPT !.panic = TRUE]
        ELSE ReplayChangeLog(log, i + 1, [acc EXCEPT !.ctx = InsertAt(@, log[i].index, CtxAdded)])

RECURSIVE SetInactiveAll(_, _)
SetInactiveAll(rec, ids) ==
    IF ids = <<>> THEN rec
    ELSE SetInactiveAll(SetCellAt(rec, Head(ids), [CellAt(rec, Head(ids)) EXCEPT !.active = FALSE]),
                        Tail(ids))

\* the calls of disable_cell_records, their results dropped
RECURSIVE DisableAll(_, _, _)
DisableAll(s, id, ids) ==
    IF ids = <<>> THEN Ret(s, 0)
    ELSE With(disable_cell_records(s, <<id, Head(ids)>>, MaxChainSteps),
              LAMBDA d :
                 IF d.ok /\ d.v = "hang" THEN Hang(d.s)
                 ELSE IF ~d.ok /\ d.v = "panic" THEN d
                 ELSE DisableAll(d.s, id, Tail(ids)))

\* make_cells_change_log after the replay
ApplyChangeLog(s, id, rec, acc) ==
    IF acc.panic THEN Panic(s)
    ELSE Bind(DisableAll(PoolPut(s, id, SetInactiveAll(rec, acc.del)), id, acc.del),
              LAMBDA d : Ret(d.s, acc.ctx))

\* v is the cells' contexts
make_cells_change_log(s, node, id) ==
    Bind(load_node_record(s, id),
         LAMBDA l :
            ApplyChangeLog(l.s, id, l.v,
                ReplayChangeLog(node.log, 1,
                    [ctx |-> OldContexts(l.v, 0), del |-> <<>>, panic |-> FALSE])))

RECURSIVE MoveOld(_, _, _, _)
MoveOld(rec, old_cell_records, ctxs, new_cell_id) ==
    IF new_cell_id >= Len(ctxs) THEN rec
    ELSE MoveOld(IF ~ctxs[new_cell_id + 1].is_added
                 THEN SetCellAt(rec, new_cell_id,
                                old_cell_records[ctxs[new_cell_id + 1].old_cell_id + 1])
                 ELSE rec,
                 old_cell_records, ctxs, new_cell_id + 1)

\* an old cell is to be moved to a slot the record does not have
MovesBeyondRecord(cells_context) ==
    \E i \in 1..Len(cells_context) : ~cells_context[i].is_added /\ i > NB_CELL

move_old_cell_records(s, node_record_id, cells_context) ==
    Bind(load_node_record(s, node_record_id),
         LAMBDA l :
            IF MovesBeyondRecord(cells_context)
            THEN Panic(l.s)
            ELSE Ret(PoolPut(l.s, node_record_id, MoveOld(l.v, l.v.cells, cells_context, 0)),
                     0))

\* The loop of update_overflow_cells, the pool holding the record of
\* curr_node_id; v is the location the loop ended at
RECURSIVE UpdateOverflowLoop(_, _, _, _)
UpdateOverflowLoop(s, cells, curr_node_id, curr_cell_id) ==
    IF cells = <<>> THEN Ret(s, <<curr_node_id, curr_cell_id>>)
    ELSE IF curr_cell_id >= NB_CELL THEN Panic(s)
    ELSE IF Head(cells).node_ptr # 0 /\ Head(cells).has_overflow
            /\ curr_node_id # Head(cells).node_ptr
    THEN Bind(load_node_record(
                  PoolPut(s, curr_node_id,
                          SetCellAt(s.pool[curr_node_id], curr_cell_id, Head(cells))),
                  Head(cells).node_ptr),
              LAMBDA l : UpdateOverflowLoop(l.s, Tail(cells), Head(cells).node_ptr,
                                            Head(cells).overflow_cell_ptr))
    ELSE IF Head(cells).node_ptr = 0 \/ ~Head(cells).has_overflow
    THEN Ret(PoolPut(s, curr_node_id,
                     SetCellAt(s.pool[curr_node_id], curr_cell_id, Head(cells))),
             <<curr_node_id, curr_cell_id>>)
    ELSE UpdateOverflowLoop(
             PoolPut(s, curr_node_id,
                     SetCellAt(s.pool[curr_node_id], curr_cell_id, Head(cells))),
             Tail(cells), Head(cells).node_ptr, Head(cells).overflow_cell_ptr)

update_overflow_cells(s, cell_records, prev_cell_record) ==
    Bind(load_node_record(s, prev_cell_record.node_ptr),
         LAMBDA l : UpdateOverflowLoop(l.s, cell_records, prev_cell_record.node_ptr,
                                       prev_cell_record.overflow_cell_ptr))

\* the last record of q that is no list cell, or dflt
RECURSIVE LastKeyCell(_, _)
LastKeyCell(q, dflt) ==
    IF q = <<>> THEN dflt
    ELSE LastKeyCell(Tail(q), IF Head(q).is_list_ptr THEN dflt ELSE Head(q))

\* list_ptr_cells.pop(), or a new list cell to create
PopListCell(key_size, c) ==
    [c EXCEPT
        !.off = COUNTER_SIZE, !.cnt = 0,
        !.rec = IF Len(c.rest) > 0 THEN c.rest[Len(c.rest)] ELSE ListPtrCellRecord(key_size),
        !.to_create = (Len(c.rest) = 0),
        !.rest = IF Len(c.rest) > 0 THEN SubSeq(c.rest, 1, Len(c.rest) - 1) ELSE @]

\* the list cell filled so far goes to cells_to_create or cells_to_update
PushListCell(c, closed) ==
    [c EXCEPT !.upd = IF c.to_create THEN @ ELSE Append(@, closed),
              !.crt = IF c.to_create THEN Append(@, closed) ELSE @]

\* The loop of update_cell_data_ptrs over data_ptrs.  c is the loop's state:
\* rec (the list cell being filled), rest (list_ptr_cells, popped from the
\* end), off, cnt, to_create, upd (cells_to_update), crt (cells_to_create).
RECURSIVE FillListCells(_, _, _, _)
FillListCells(key_size, data_ptrs, i, c) ==
    IF i > Len(data_ptrs) THEN c
    ELSE IF c.off + NODE_PTR_SIZE + NODE_PTR_SIZE >= key_size
    THEN FillListCells(key_size, data_ptrs, i + 1,
                       PopListCell(key_size,
                                   PushListCell(c, ClosedListCell(c, data_ptrs[i]))))
    ELSE IF i = Len(data_ptrs)
    THEN PushListCell(c, ClosedListCell(c, data_ptrs[i]))
    ELSE FillListCells(key_size, data_ptrs, i + 1,
            [c EXCEPT !.rec = [c.rec EXCEPT !.key = insert_data_ptr(@, c.off, data_ptrs[i])],
                      !.off = c.off + NODE_PTR_SIZE, !.cnt = c.cnt + 1])

\* "link last updated cell to created cells"
LinkCreatedCells(s, c, last_updated_cell_pos) ==
    IF Len(c.crt) > 0
    THEN Bind(create_overflow_cells(s, Reverse(c.crt), 0),
              LAMBDA n :
                 Bind(load_node_record(n.s, last_updated_cell_pos[1]),
                      LAMBDA l :
                         IF last_updated_cell_pos[2] >= NB_CELL THEN Panic(l.s)
                         ELSE Ret(PoolPut(l.s, last_updated_cell_pos[1],
                                    SetCellAt(l.v, last_updated_cell_pos[2],
                                       chain_with_cell_location(
                                          [CellAt(l.v, last_updated_cell_pos[2]) EXCEPT
                                              !.has_overflow = TRUE],
                                          n.v[1]))), 0)))
    ELSE Ret(s, 0)

\* "disable unused cells"; the call's result is dropped
DisableUnused(s, c, last_updated_cell_pos) ==
    IF Len(c.rest) > 0
    THEN With(disable_cell_records(s, last_updated_cell_pos, MaxChainSteps),
              LAMBDA d : IF d.ok /\ d.v = "hang" THEN Hang(d.s)
                         ELSE IF ~d.ok /\ d.v = "panic" THEN d
                         ELSE Ret(d.s, 0))
    ELSE Ret(s, 0)

\* update_cell_data_ptrs once the cells to update and to create are known
WriteListCells(s, c, prev_cell_record) ==
    Bind(update_overflow_cells(s, Reverse(c.upd), prev_cell_record),
         LAMBDA u :
            Bind(LinkCreatedCells(u.s, c, u.v),
                 LAMBDA k : DisableUnused(k.s, c, u.v)))

\* the loop's state after `let mut curr_list_ptr_cell = list_ptr_cells.pop()?`
FirstListCell(list_ptr_cells) ==
    [rec |-> list_ptr_cells[Len(list_ptr_cells)],
     rest |-> SubSeq(list_ptr_cells, 1, Len(list_ptr_cells) - 1),
     off |-> COUNTER_SIZE, cnt |-> 0, to_create |-> FALSE,
     upd |-> <<>>, crt |-> <<>>]

\* update_cell_data_ptrs on the overflow cells it loaded
UpdateListCells(key_size, s, root_cell_record, data_ptrs, overflow_cells, list_ptr_cells) ==
    IF list_ptr_cells = <<>> THEN Fail(s)
    ELSE WriteListCells(s,
            FillListCells(key_size, data_ptrs, 1, FirstListCell(list_ptr_cells)),
            LastKeyCell(overflow_cells, root_cell_record))

update_cell_data_ptrs(key_size, s, root_cell_record, data_ptrs) ==
    Bind(load_overflow_cell_records(s, root_cell_record),
         LAMBDA o :
            UpdateListCells(key_size, o.s, root_cell_record, data_ptrs, o.v.cells,
                            SelectSeq(o.v.cells, LAMBDA x : x.is_list_ptr)))

RECURSIVE UpdateDataPtrsLoop(_, _, _, _, _)
UpdateDataPtrsLoop(s, main_node_record, ctxs, node, new_cell_id) ==
    IF new_cell_id >= Len(ctxs) THEN Ret(s, 0)
    ELSE IF ctxs[new_cell_id + 1].is_added
    THEN UpdateDataPtrsLoop(s, main_node_record, ctxs, node, new_cell_id + 1)
    ELSE IF new_cell_id >= Len(node.cells) THEN Panic(s)
    ELSE IF node.cells[new_cell_id + 1].changed
    THEN IF new_cell_id >= NB_CELL THEN Panic(s)
         ELSE Bind(update_cell_data_ptrs(KEY_SIZE, s, CellAt(main_node_record, new_cell_id),
                                         node.cells[new_cell_id + 1].data_ptrs),
                   LAMBDA u : UpdateDataPtrsLoop(u.s, main_node_record, ctxs, node,
                                                 new_cell_id + 1))
    ELSE UpdateDataPtrsLoop(s, main_node_record, ctxs, node, new_cell_id + 1)

update_node_record_cells_data_ptr(s, node_record_id, cells_context, node) ==
    Bind(load_node_record(s, node_record_id),
         LAMBDA l : UpdateDataPtrsLoop(l.s, l.v, cells_context, node, 0))

RECURSIVE create_new_records(_, _, _, _, _)
create_new_records(s, node_record_id, ctxs, node, new_cell_id) ==
    IF new_cell_id >= Len(ctxs) THEN Ret(s, 0)
    ELSE IF ~ctxs[new_cell_id + 1].is_added
    THEN create_new_records(s, node_record_id, ctxs, node, new_cell_id + 1)
    ELSE IF new_cell_id >= Len(node.cells) THEN Panic(s)
    ELSE Bind(create_cell(KEY_SIZE, s, node.cells[new_cell_id + 1]),
              LAMBDA c :
                 Bind(load_node_record(c.s, node_record_id),
                      LAMBDA l :
                         IF c.v = <<>> \/ new_cell_id >= NB_CELL THEN Panic(l.s)
                         ELSE create_new_records(
                                  PoolPut(l.s, node_record_id,
                                          SetCellAt(l.v, new_cell_id, c.v[1])),
                                  node_record_id, ctxs, node, new_cell_id + 1)))

\* save after make_cells_change_log, up to save_all_node_records
MaterializeCells(s, id, cells_context, node) ==
    Bind(move_old_cell_records(s, id, cells_context),
         LAMBDA mv :
            Bind(update_node_record_cells_data_ptr(mv.s, id, cells_context, node),
                 LAMBDA up : create_new_records(up.s, id, cells_context, node, 0)))

\* BTreeNodeStore::save up to its call of save_all_node_records
SaveBeforeSaveAll(s, node) ==
    Bind(select_root_node(s, node),
         LAMBDA sel :
            Bind(make_cells_change_log(sel.s, node, sel.v),
                 LAMBDA ctx : MaterializeCells(ctx.s, sel.v, ctx.v, node)))

save(r, node, fuel, first) ==
    Bind(SaveBeforeSaveAll(OpState(r, fuel), node), LAMBDA b : SaveAllAs(b.s, first, 0))

(***************************************************************************)
(* The logical node and its mutations (index/model.rs).                     *)
(***************************************************************************)
NoNode == <<>>

LogAdd(index) == [kind |-> "add", index |-> index]

LogRemove(index) == [kind |-> "remove", index |-> index]

\* Cell::append_data_ptr
append_data_ptr(cell, data_ptr) ==
    [cell EXCEPT !.data_ptrs = Append(@, data_ptr), !.changed = TRUE]

\* BTreeNode::insert_cell
insert_cell(node, index, cell) ==
    [node EXCEPT !.cells = InsertAt(@, index, cell), !.log = Append(@, LogAdd(index))]

\* BTreeNode::remove_cell
remove_cell(node, index) ==
    [node EXCEPT !.cells = RemoveAt(@, index), !.log = Append(@, LogRemove(index))]

(***************************************************************************)
(* The node store as a state machine: one client, one operation at a time.  *)
(***************************************************************************)
MaxNodes == 2

MaxLog == 2

Key(c, n) == [i \in 1..n |-> c]

InteriorCells ==
    <<NewCell(Key(97, 3), Some(4), <<>>, TRUE),
      NewCell(Key(98, KEY_SIZE), Some(5), <<>>, TRUE),
      NewCell(Key(99, 2 * KEY_SIZE + 5), Some(6), <<>>, TRUE)>>

LongCells ==
    <<NewCell(Key(100, 3 * KEY_SIZE + 1), Some(7), <<>>, TRUE),
      NewCell(Key(101, 3 * KEY_SIZE + 1), Some(8), <<>>, TRUE)>>

LeafCells ==
    <<NewCell(Key(102, 3), None, <<11, 12, 13>>, TRUE),
      NewCell(Key(103, 4), None, <<21>>, TRUE)>>

\* posting lists of three, two and one fragments: with NB_CELL = 4 the chain
\* of the second cell starts in the second storage node and ends in the
\* first; the third cell has a key of two fragments
CrossLeafCells ==
    <<NewCell(Key(104, 3), None, <<51, 52, 53, 54, 55>>, TRUE),
      NewCell(Key(105, 2), None, <<61, 62, 63>>, TRUE),
      NewCell(Key(106, KEY_SIZE + 5), None, <<71, 72>>, TRUE)>>

NodeInputs ==
    { NewNode(None, Some(42), FALSE, FALSE, InteriorCells),
      NewNode(None, None, TRUE, FALSE, CrossLeafCells),
      NewNode(None, None, FALSE, FALSE, LongCells),
      NewNode(None, None, TRUE, TRUE, LeafCells),
      NewNode(None, None, TRUE, TRUE, <<>>) }

\* the cells a client inserts into a node in memory
AddedCells(node) ==
    IF node.is_leaf THEN {NewCell(Key(105, 2), None, <<41>>, TRUE)}
    ELSE {NewCell(Key(106, KEY_SIZE + 1), Some(9), <<>>, TRUE)}

\* how many records-manager calls succeed before one fails
FuelChoices == {NoFailure, 0, 2}

\* the same for load_or_create_root_node, whose create of an empty root makes
\* two records-manager calls
RootFuelChoices == FuelChoices \cup {1}

\* the pool's iteration order starts with the ids of one of these
FirstChoices == {<<>>, <<2>>}

StoreInit ==
    /\ rm = EmptyRM
    /\ mem = NoNode
    /\ hist = [op |-> "init", ok |-> TRUE, v |-> "none", pre |-> EmptyRM,
               node |-> NoNode, ids |-> {}]
    /\ ops = 0
    /\ conc = 0 /\ vf = 0 /\ vh = 0 /\ mt = 0 /\ sys = 0

CanStep == hist.ok /\ ops < MaxOps

\* BTreeNodeStore::create on a fresh node
Create(node, fuel, first) ==
    /\ CanStep
    /\ Cardinality(hist.ids) < MaxNodes
    /\ LET r == create(rm, node, fuel, first) IN
       /\ rm' = r.s.rm
       /\ mem' = created_node(rm, node, fuel)
       /\ hist' = [op |-> "create", ok |-> r.ok, v |-> IF r.ok THEN "none" ELSE r.v,
                   pre |-> rm, node |-> mem',
                   ids |-> IF r.ok THEN hist.ids \cup {r.v} ELSE hist.ids]
    /\ ops' = ops + 1
    /\ UNCHANGED <<conc, vf, vh, mt, sys>>

\* BTreeNodeStore::retrieve_node
Retrieve(nid) ==
    /\ CanStep
    /\ nid \in hist.ids
    /\ LET r == retrieve_node(rm, nid) IN
       /\ mem' = IF r.ok THEN r.v ELSE NoNode
       /\ hist' = [hist EXCEPT !.op = "retrieve", !.ok = r.ok,
                               !.v = IF r.ok THEN "none" ELSE r.v,
                               !.pre = rm, !.node = mem']
    /\ rm' = rm
    /\ ops' = ops + 1
    /\ UNCHANGED <<conc, vf, vh, mt, sys>>

\* BTreeNodeStore::load_or_create_root_node: create of a new root leaf on an
\* empty store, retrieve_node of the header's root id on any other; v is the
\* node returned
load_or_create_root_node(r, fuel, first) ==
    IF Len(r.recs) = 0
    THEN Bind(create(r, NewNode(None, None, TRUE, TRUE, <<>>), fuel, first),
              LAMBDA c : Ret(c.s, NewNode(Some(c.v), None, TRUE, TRUE, <<>>)))
    ELSE RetrieveNodeIn(OpState(r, fuel), r.root)

\* the client asks for the root; it holds a node only if one is returned
LoadOrCreateRootNode(fuel, first) ==
    /\ CanStep
    /\ LET r == load_or_create_root_node(rm, fuel, first) IN
       /\ rm' = r.s.rm
       /\ mem' = IF r.ok THEN r.v ELSE NoNode
       /\ hist' = [op |-> "load_or_create_root_node", ok |-> r.ok,
                   v |-> IF r.ok THEN "none" ELSE r.v,
                   pre |-> rm, node |-> mem',
                   ids |-> IF r.ok THEN hist.ids \cup {r.v.id[1]} ELSE hist.ids]
    /\ ops' = ops + 1
    /\ UNCHANGED <<conc, vf, vh, mt, sys>>

HasNode == mem # NoNode /\ mem.id # None

AppendDataPtr(index) ==
    /\ CanStep /\ HasNode /\ mem.is_leaf
    /\ index \in 0..(Len(mem.cells) - 1)
    /\ mem' = [mem EXCEPT !.cells[index + 1] = append_data_ptr(@, 200 + ops)]
    /\ hist' = [hist EXCEPT !.op = "append", !.node = mem']
    /\ ops' = ops + 1
    /\ UNCHANGED <<rm, conc, vf, vh, mt, sys>>

InsertCell(index) ==
    /\ CanStep /\ HasNode
    /\ Len(mem.log) < MaxLog
    /\ Len(mem.cells) < NB_CELL
    /\ index \in 0..Len(mem.cells)
    /\ \E cell \in AddedCells(mem) : mem' = insert_cell(mem, index, cell)
    /\ hist' = [hist EXCEPT !.op = "insert", !.node = mem']
    /\ ops' = ops + 1
    /\ UNCHANGED <<rm, conc, vf, vh, mt, sys>>

RemoveCell(index) ==
    /\ CanStep /\ HasNode
    /\ Len(mem.log) < MaxLog
    /\ index \in 0..(Len(mem.cells) - 1)
    /\ mem' = remove_cell(mem, index)
    /\ hist' = [hist EXCEPT !.op = "remove", !.node = mem']
    /\ ops' = ops + 1
    /\ UNCHANGED <<rm, conc, vf, vh, mt, sys>>

\* BTreeNodeStore::save of the node in memory
Save(fuel, first) ==
    /\ CanStep /\ HasNode
    /\ LET r == save(rm, mem, fuel, first) IN
       /\ rm' = r.s.rm
       /\ hist' = [hist EXCEPT !.op = "save", !.ok = r.ok,
                               !.v = IF r.ok THEN "none" ELSE r.v,
                               !.pre = rm, !.node = mem]
    /\ mem' = mem
    /\ ops' = ops + 1
    /\ UNCHANGED <<conc, vf, vh, mt, sys>>

StoreNext ==
    \/ \E node \in NodeInputs, fuel \in FuelChoices, first \in FirstChoices :
          Create(node, fuel, first)
    \/ \E nid \in hist.ids : Retrieve(nid)
    \/ \E fuel \in RootFuelChoices, first \in FirstChoices : LoadOrCreateRootNode(fuel, first)
    \/ \E index \in 0..(NB_CELL - 1) : AppendDataPtr(index)
    \/ \E index \in 0..NB_CELL : InsertCell(index)
    \/ \E index \in 0..(NB_CELL - 1) : RemoveCell(index)
    \/ \E fuel \in FuelChoices, first \in FirstChoices : Save(fuel, first)

Spec == StoreInit /\ [][StoreNext]_vars

(***************************************************************************)
(* A save and a retrieve_node running at the same time on one store.  Each  *)
(* records-manager call takes the mutex for that call alone, so the steps   *)
(* that interleave are the saver's writes, in the order save issues them,   *)
(* and the reader's loads, one record each.  The saver's own loads read     *)
(* what no one else writes and are not steps.                               *)
(* conc = [pending, rpool, rdone, rres, before, after, nid].                *)
(***************************************************************************)
\* one write of the saver reaching the records manager
ApplyEffect(r, e) ==
    IF e.kind = "root" THEN [r EXCEPT !.root = e.id]
    ELSE IF e.kind = "free" THEN [r EXCEPT !.free = e.id]
    ELSE IF e.kind = "create" THEN [r EXCEPT !.recs = Append(@, e.rec)]
    ELSE [r EXCEPT !.recs[e.id] = e.rec]

\* what the client does to the node it holds before it saves it
Mutations(node) ==
    {[kind |-> "append", index |-> i] : i \in {j \in 0..(Len(node.cells) - 1) : node.is_leaf}}
    \cup {[kind |-> "insert", index |-> i] : i \in 0..Len(node.cells)}
    \cup {[kind |-> "remove", index |-> i] : i \in 0..(Len(node.cells) - 1)}

Mutate(node, m) ==
    IF m.kind = "append"
    THEN [node EXCEPT !.cells[m.index + 1] = append_data_ptr(@, 200)]
    ELSE IF m.kind = "insert"
    THEN insert_cell(node, m.index, CHOOSE c \in AddedCells(node) : TRUE)
    ELSE remove_cell(node, m.index)

ConcNodes ==
    { NewNode(None, Some(42), FALSE, FALSE, InteriorCells),
      NewNode(None, None, TRUE, TRUE, LeafCells) }

\* the state in which a save that ran alone as sv starts on the store c left
ConcStart(c, sv) ==
    /\ c.ok /\ sv.ok
    /\ rm = c.s.rm
    /\ conc = [pending |-> sv.s.eff, rpool |-> <<>>, rdone |-> FALSE, rres |-> NoNode,
               before |-> c.s.rm, after |-> sv.s.rm, nid |-> c.v]

ConcStartOn(c, node, m, first) ==
    ConcStart(c, save(c.s.rm, Mutate([node EXCEPT !.id = Some(c.v)], m), NoFailure, first))

ConcInit ==
    /\ \E node \in ConcNodes : \E m \in Mutations(node) : \E first \in FirstChoices :
          ConcStartOn(create(EmptyRM, node, NoFailure, <<>>), node, m, first)
    /\ mem = NoNode /\ hist = 0 /\ ops = 0 /\ vf = 0 /\ vh = 0 /\ mt = 0 /\ sys = 0

\* the saver's next write
SaverWrite ==
    /\ conc.pending # <<>>
    /\ rm' = ApplyEffect(rm, Head(conc.pending))
    /\ conc' = [conc EXCEPT !.pending = Tail(@)]
    /\ UNCHANGED <<mem, hist, ops, vf, vh, mt, sys>>

\* retrieve_node resumed on the reader's pool with one more load allowed
ReaderRun == RetrieveNodeIn([OpState(rm, 1) EXCEPT !.pool = conc.rpool], conc.nid)

\* the reader loads one more record
ReaderLoad ==
    /\ ~conc.rdone
    /\ ~ReaderRun.ok
    /\ ReaderRun.s.pool # conc.rpool
    /\ conc' = [conc EXCEPT !.rpool = ReaderRun.s.pool]
    /\ UNCHANGED <<rm, mem, hist, ops, vf, vh, mt, sys>>

\* retrieve_node returns, after at most one more load
ReaderReturn ==
    /\ ~conc.rdone
    /\ ReaderRun.ok \/ ReaderRun.s.pool = conc.rpool
    /\ conc' = [conc EXCEPT !.rdone = TRUE,
                            !.rpool = ReaderRun.s.pool,
                            !.rres = IF ReaderRun.ok THEN ReaderRun.v ELSE NoNode]
    /\ UNCHANGED <<rm, mem, hist, ops, vf, vh, mt, sys>>

ConcNext == SaverWrite \/ ReaderLoad \/ ReaderReturn

ConcSpec == ConcInit /\ [][ConcNext]_vars

\* what retrieve_node returns on the store r, NoNode when it returns None
RetrievedFrom(r, nid) ==
    IF retrieve_node(r, nid).ok THEN retrieve_node(r, nid).v ELSE NoNode

\* C6: a retrieve_node that ran while a save was writing returns what it
\* would return on the store as it was before the save, or what it would
\* return on the store once the save is done.
C6_ReaderSeesNoneOrAll ==
    conc.rdone =>
        \/ conc.rres = RetrievedFrom(conc.before, conc.nid)
        \/ conc.rres = RetrievedFrom(conc.after, conc.nid)

(***************************************************************************)
(* Properties of the node store.                                            *)
(***************************************************************************)
\* what retrieve_node returns for the node the last operation worked on
Retrieved == retrieve_node(rm, hist.node.id[1])

SameInteriorCells(a, b) ==
    /\ Len(a) = Len(b)
    /\ \A i \in 1..Len(a) : a[i].key = b[i].key /\ a[i].node_ptr = b[i].node_ptr

SameKeys(a, b) ==
    /\ Len(a) = Len(b)
    /\ \A i \in 1..Len(a) : a[i].key = b[i].key

SamePostingLists(a, b) ==
    /\ Len(a) = Len(b)
    /\ \A i \in 1..Len(a) : a[i].data_ptrs = b[i].data_ptrs

\* the last operation was a successful save of the node in memory
Saved == hist.op = "save" /\ hist.ok

\* C1: after a successful create of an interior node, retrieve_node of its id
\* returns the same number of cells in the same order, each with the key and
\* the child pointer it was created with, and the sibling pointer set before
\* create.
C1_CreateRetrieveIdentity ==
    (hist.op = "create" /\ hist.ok /\ ~hist.node.is_leaf)
        => /\ Retrieved.ok
           /\ SameInteriorCells(Retrieved.v.cells, hist.node.cells)
           /\ Retrieved.v.node_ptr = hist.node.node_ptr

\* every overflow chain of the store lies in one free-cell storage node
OneStorageNode ==
    Cardinality({i \in 1..Len(rm.recs) : rm.recs[i].overflow}) <= 1

\* C2: after a successful save of a leaf node whose only changes are
\* append_data_ptr calls, retrieve_node returns for every cell the posting
\* list of the node in memory: the stored list followed by the appended ids
\* in the order they were appended.  Stated for stores whose chains lie in
\* one storage node.
C2_AppendedPostingList ==
    (Saved /\ hist.node.is_leaf /\ hist.node.log = <<>> /\ OneStorageNode)
        => /\ Retrieved.ok
           /\ SamePostingLists(Retrieved.v.cells, hist.node.cells)

\* C3: after a successful save of a node whose change log holds insertions
\* and removals, retrieve_node returns the cell list of the node in memory:
\* as many cells, with the same keys in the same order.  Stated for stores
\* whose chains lie in one storage node.
C3_SaveRetrieveCells ==
    (Saved /\ hist.node.log # <<>> /\ OneStorageNode)
        => /\ Retrieved.ok
           /\ SameKeys(Retrieved.v.cells, hist.node.cells)

\* the active slots of a record are slots 0..k-1
ActivePrefix(rec) ==
    \A i \in 1..NB_CELL : \A j \in 1..NB_CELL :
        (i < j /\ rec.cells[j].active) => rec.cells[i].active

\* C4: after a successful save of a node, the active cells of its node
\* record are a prefix of the slot array.
C4_ActivePrefixAfterSave ==
    Saved => ActivePrefix(rm.recs[hist.node.id[1]])

\* C5: a create or a save that is aborted leaves the records manager as it
\* was before the operation: no record created or changed, the same root
\* pointer and the same free-list head in the header.
C5_AbortLeavesDiskUnaltered ==
    (hist.op \in {"create", "save"} /\ ~hist.ok) => rm = hist.pre

(***************************************************************************)
(* VF2: graphs.  A graph has the vertices 1..n with the labels vl and the   *)
(* edges e[i] = [s, t, l], i being the edge's id.  The pattern of a match   *)
(* is such a graph, held in memory as a PropertyGraph; the target is such a *)
(* graph held by the repository behind a GraphProxy, lost_nodes and         *)
(* lost_rels being the ids whose node or relationship the repository cannot *)
(* resolve.  The edge chain of a vertex lists the edge added last first.    *)
(***************************************************************************)
Edge(s, t, l) == [s |-> s, t |-> t, l |-> l]

Graph(vl, e) ==
    [n |-> Len(vl), vl |-> vl, e |-> e, lost_nodes |-> {}, lost_rels |-> {}]

RECURSIVE EdgeChain(_, _, _, _)
\* the ids i, i-1, .. 1 of the edges that end (inbound) or start at v
EdgeChain(g, v, inbound, i) ==
    IF i = 0 THEN <<>>
    ELSE IF (IF inbound THEN g.e[i].t ELSE g.e[i].s) = v
         THEN <<i>> \o EdgeChain(g, v, inbound, i - 1)
         ELSE EdgeChain(g, v, inbound, i - 1)

\* the pattern graph_0 of state.rs: graph_0.in_edges(v) and the like
PropertyGraph_in_edges(g, v) == EdgeChain(g, v, TRUE, Len(g.e))

PropertyGraph_out_edges(g, v) == EdgeChain(g, v, FALSE, Len(g.e))

PropertyGraph_get_source_index(g, edge_index) == g.e[edge_index].s

PropertyGraph_get_target_index(g, edge_index) == g.e[edge_index].t

nodes_len(g) == g.n

\* the predicates the caller hands to State::new: equal labels; a pattern
\* relationship that names no label (AnyLabel) compares with every one
vertex_comp(v, w) == v = w

AnyLabel == "*"

edge_comp(r0, r) == r0 = r \/ r0 = AnyLabel

EmptyMap == [k \in {} |-> 0]

\* HashMap::insert
MapPut(m, k, x) == [y \in (DOMAIN m) \cup {k} |-> IF y = k THEN x ELSE m[y]]

\* HashMap::remove
MapDel(m, k) == [y \in (DOMAIN m) \ {k} |-> m[y]]

(***************************************************************************)
(* The lazy graph proxy (graph_engine/model.rs).  The graph repository is  *)
(* external to the files modelled: it is a store of vertex and edge records *)
(* whose adjacency lists are singly linked, latest edge first.  A           *)
(* repository is repo = [nodes, edges, lost_nodes, lost_rels]: nodes gives  *)
(* the label of every vertex id, edges the relationships [id, source,       *)
(* target, l] in the order they were created.                               *)
(***************************************************************************)
RepoVertexIds == {1, 2, 3}

\* the stored relationships, in the order they were created
RepoEdgeList ==
    << [id |-> 11, source |-> 1, target |-> 2, l |-> "r"],
       [id |-> 12, source |-> 2, target |-> 1, l |-> "r"],
       [id |-> 13, source |-> 1, target |-> 2, l |-> "r"] >>

RepoEdgeIds == {RepoEdgeList[i].id : i \in 1..Len(RepoEdgeList)}

\* the repository of the proxy explored on its own
Repo ==
    [nodes |-> [v \in RepoVertexIds |-> "N"], edges |-> RepoEdgeList,
     lost_nodes |-> {}, lost_rels |-> {}]

\* the repository that holds the graph g: the vertex v has the id v, the
\* edge g.e[i] the id i
Repository(g) ==
    [nodes |-> [v \in 1..g.n |-> g.vl[v]],
     edges |-> [i \in 1..Len(g.e) |->
                   [id |-> i, source |-> g.e[i].s, target |-> g.e[i].t,
                    l |-> g.e[i].l]],
     lost_nodes |-> g.lost_nodes, lost_rels |-> g.lost_rels]

\* ids a caller may ask for: the vertices the edges lead to and an id the
\* store does not hold; the stored edges and an id the store does not hold
AskedVertexIds == {1, 2, 4}

AskedEdgeIds == RepoEdgeIds \cup {14}

EdgeIdsOf(repo) == {repo.edges[i].id : i \in 1..Len(repo.edges)}

RepoEdgePos(repo, id) == CHOOSE i \in 1..Len(repo.edges) : repo.edges[i].id = id

\* the latest of the first i stored edges that leaves (enters, if inbound) v
RECURSIVE LatestEdge(_, _, _, _)
LatestEdge(repo, i, inbound, v) ==
    IF i = 0 THEN None
    ELSE IF (IF inbound THEN repo.edges[i].target ELSE repo.edges[i].source) = v
         THEN Some(repo.edges[i].id)
         ELSE LatestEdge(repo, i - 1, inbound, v)

retrieve_vertex_data_by_id(repo, id) ==
    IF id \in DOMAIN repo.nodes
    THEN Some([first_outbound_edge |-> LatestEdge(repo, Len(repo.edges), FALSE, id),
               first_inbound_edge |-> LatestEdge(repo, Len(repo.edges), TRUE, id)])
    ELSE None

EdgeDataAt(repo, i) ==
    [source |-> repo.edges[i].source,
     target |-> repo.edges[i].target,
     next_outbound_edge |-> LatestEdge(repo, i - 1, FALSE, repo.edges[i].source),
     next_inbound_edge |-> LatestEdge(repo, i - 1, TRUE, repo.edges[i].target)]

retrieve_edge_data_by_id(repo, id) ==
    IF id \in EdgeIdsOf(repo) THEN Some(EdgeDataAt(repo, RepoEdgePos(repo, id)))
    ELSE None

\* a Node / Relationship as far as the proxy and the predicates of a match
\* look at it: its optional id and its label; Node::new() / Relationship::new()
NewNodeValue == [id |-> None, label |-> ""]

retrieve_node_by_id(repo, id) ==
    IF id \in DOMAIN repo.nodes /\ id \notin repo.lost_nodes
    THEN Some(<<[id |-> Some(id), label |-> repo.nodes[id]],
                retrieve_vertex_data_by_id(repo, id)[1]>>)
    ELSE None

retrieve_relationship_by_id(repo, id) ==
    IF id \in EdgeIdsOf(repo) /\ id \notin repo.lost_rels
    THEN Some(<<[id |-> Some(id), label |-> repo.edges[RepoEdgePos(repo, id)].l],
                retrieve_edge_data_by_id(repo, id)[1]>>)
    ELSE None

\* ProxyNodeId::new / ProxyRelationshipId::new
ProxyId(mem_id, db_id) == [mem_id |-> mem_id, store_id |-> db_id]

\* ProxyNodeId::new_db / ProxyRelationshipId::new_db
new_db(db_id) == ProxyId(0, db_id)

\* Option::map(|id| new_db(id))
MapNewDb(o) == IF o = None THEN None ELSE Some(new_db(o[1]))

\* GraphProxy::new / new_full: the tables start empty; calls counts the
\* repository calls of the operation under way
NewProxy(repo) ==
    [nodes |-> <<>>, relationships |-> <<>>, vertices |-> <<>>, edges |-> <<>>,
     map_vertices |-> EmptyMap, map_edges |-> EmptyMap, repository |-> repo,
     calls |-> 0]

\* repository.lock().unwrap().retrieve_...(id)?
RepoCall(p, o) ==
    IF o = None THEN Fail([p EXCEPT !.calls = @ + 1])
    ELSE Ret([p EXCEPT !.calls = @ + 1], o[1])

\* add_vertex: the value is <<ProxyNodeId, InnerVertexData>>
add_vertex(p, db_id, vdata) ==
    Ret([p EXCEPT !.vertices =
            Append(@, [first_outbound_edge |-> MapNewDb(vdata.first_outbound_edge),
                       first_inbound_edge |-> MapNewDb(vdata.first_inbound_edge)])],
        << ProxyId(Len(p.vertices), db_id),
           [first_outbound_edge |-> MapNewDb(vdata.first_outbound_edge),
            first_inbound_edge |-> MapNewDb(vdata.first_inbound_edge)] >>)

\* map_vertices.insert(id, (pid, vdata)) after add_vertex
InsertVertex(a, id, vdata) ==
    Ret([a.s EXCEPT !.map_vertices = MapPut(@, id, <<a.v[1], vdata>>)], a.v)

get_or_retrieve_vertex_data(p, id) ==
    IF id \in DOMAIN p.map_vertices
    THEN IF p.map_vertices[id][1].mem_id < Len(p.vertices)
         THEN Ret(p, << p.map_vertices[id][1],
                        p.vertices[p.map_vertices[id][1].mem_id + 1] >>)
         ELSE Fail(p)
    ELSE Bind(RepoCall(p, retrieve_vertex_data_by_id(p.repository, id)),
              LAMBDA r : InsertVertex(add_vertex(r.s, id, r.v), id, r.v))

\* add_edge, from the push on: the edge record, then first_outbound_edge of
\* the source and first_inbound_edge of the target if they are None
PushEdge(p, src, tgt, data) ==
    [p EXCEPT !.edges =
        Append(@, [source |-> src, target |-> tgt,
                   next_inbound_edge |-> MapNewDb(data.next_inbound_edge),
                   next_outbound_edge |-> MapNewDb(data.next_outbound_edge)])]

SetFirstOutbound(p, src, pid) ==
    IF p.vertices[src.mem_id + 1].first_outbound_edge = None
    THEN [p EXCEPT !.vertices[src.mem_id + 1].first_outbound_edge = Some(pid)]
    ELSE p

SetFirstInbound(p, tgt, pid) ==
    IF p.vertices[tgt.mem_id + 1].first_inbound_edge = None
    THEN [p EXCEPT !.vertices[tgt.mem_id + 1].first_inbound_edge = Some(pid)]
    ELSE p

\* the free function add_edge
add_edge(p, db_edge_data, rel_db_id) ==
    Bind(get_or_retrieve_vertex_data(p, db_edge_data.source),
         LAMBDA s :
            Bind(get_or_retrieve_vertex_data(s.s, db_edge_data.target),
                 LAMBDA t :
                    Ret(SetFirstInbound(
                            SetFirstOutbound(
                                PushEdge(t.s, s.v[1], t.v[1], db_edge_data),
                                s.v[1], ProxyId(Len(p.edges), rel_db_id)),
                            t.v[1], ProxyId(Len(p.edges), rel_db_id)),
                        ProxyId(Len(p.edges), rel_db_id))))

\* GraphProxy::add_edge
GraphProxy_add_edge(p, rel_db_id) ==
    Bind(RepoCall(p, retrieve_edge_data_by_id(p.repository, rel_db_id)),
         LAMBDA d : add_edge(d.s, d.v, rel_db_id))

\* while index > v.len() { v.push(new()) }; v.insert(index, x)
RECURSIVE PadTo(_, _)
PadTo(q, index) == IF index > Len(q) THEN PadTo(Append(q, NewNodeValue), index) ELSE q

PadInsert(q, index, x) == InsertAt(PadTo(q, index), index, x)

\* add_node, once the ProxyNodeId is known
PlaceNode(p, pid, node) ==
    Ret([p EXCEPT !.nodes = PadInsert(@, pid.mem_id, node)], pid)

\* add_node that adds the vertex whatever retrieve_vertex says
add_node_always_adds(p, node, vdata, retrieve_vertex) ==
    IF node.id = None THEN Fail(p)
    ELSE PlaceNode(add_vertex(p, node.id[1], vdata).s,
                   add_vertex(p, node.id[1], vdata).v[1], node)

add_node(p, node, vdata, retrieve_vertex) ==
    IF node.id = None THEN Fail(p)
    ELSE IF retrieve_vertex
    THEN PlaceNode(add_vertex(p, node.id[1], vdata).s,
                   add_vertex(p, node.id[1], vdata).v[1], node)
    ELSE IF node.id[1] \in DOMAIN p.map_vertices
    THEN PlaceNode(p, p.map_vertices[node.id[1]][1], node)
    ELSE Panic(p)

PlaceRelationship(p, pid, rel) ==
    Ret([p EXCEPT !.relationships = PadInsert(@, pid.mem_id, rel)], pid)

add_relationship(p, rel, retrieve_edge) ==
    IF rel.id = None THEN Fail(p)
    ELSE IF retrieve_edge
    THEN Bind(GraphProxy_add_edge(p, rel.id[1]),
              LAMBDA e : PlaceRelationship(e.s, e.v, rel))
    ELSE IF rel.id[1] \in DOMAIN p.map_edges
    THEN PlaceRelationship(p, p.map_edges[rel.id[1]][1], rel)
    ELSE Panic(p)

\* get_node_ref: `retrieve` stays true unless the vertex has a dense index
\* inside nodes and the Node there carries an id
NodeCached(p, sid) ==
    /\ sid \in DOMAIN p.map_vertices
    /\ p.map_vertices[sid][1].mem_id < Len(p.nodes)
    /\ p.nodes[p.map_vertices[sid][1].mem_id + 1].id # None

InsertNodeEntry(a, vdata) ==
    Ret([a.s EXCEPT !.map_vertices = MapPut(@, a.v.store_id, <<a.v, vdata>>)],
        a.s.nodes[a.v.mem_id + 1])

get_node_ref(p, id) ==
    IF NodeCached(p, id.store_id)
    THEN Ret(p, p.nodes[p.map_vertices[id.store_id][1].mem_id + 1])
    ELSE Bind(RepoCall(p, retrieve_node_by_id(p.repository, id.store_id)),
              LAMBDA r :
                 Bind(add_node(r.s, r.v[1], r.v[2], id.store_id \notin DOMAIN p.map_vertices),
                      LAMBDA a : InsertNodeEntry(a, r.v[2])))

RelationshipCached(p, sid) ==
    /\ sid \in DOMAIN p.map_edges
    /\ p.map_edges[sid][1].mem_id < Len(p.relationships)
    /\ p.relationships[p.map_edges[sid][1].mem_id + 1].id # None

InsertRelationshipEntry(a, edata) ==
    Ret([a.s EXCEPT !.map_edges = MapPut(@, a.v.store_id, <<a.v, edata>>)],
        a.s.relationships[a.v.mem_id + 1])

get_relationship_ref(p, id) ==
    IF RelationshipCached(p, id.store_id)
    THEN Ret(p, p.relationships[p.map_edges[id.store_id][1].mem_id + 1])
    ELSE Bind(RepoCall(p, retrieve_relationship_by_id(p.repository, id.store_id)),
              LAMBDA r :
                 Bind(get_or_retrieve_vertex_data(r.s, r.v[2].source),
                      LAMBDA s :
                         Bind(get_or_retrieve_vertex_data(s.s, r.v[2].target),
                              LAMBDA t :
                                 Bind(add_relationship(t.s, r.v[1],
                                                       id.store_id \notin DOMAIN p.map_edges),
                                      LAMBDA a : InsertRelationshipEntry(a, r.v[2])))))

\* out_edges / in_edges: `map_vertices[&id]` panics for a vertex the proxy
\* has not loaded; the iterator starts at the vertex's first edge
out_edges(p, source) ==
    IF source.store_id \in DOMAIN p.map_vertices
    THEN Ret(p, p.vertices[p.map_vertices[source.store_id][1].mem_id + 1].first_outbound_edge)
    ELSE Panic(p)

in_edges(p, target) ==
    IF target.store_id \in DOMAIN p.map_vertices
    THEN Ret(p, p.vertices[p.map_vertices[target.store_id][1].mem_id + 1].first_inbound_edge)
    ELSE Panic(p)

\* get_source_index / get_target_index of an edge an iterator has returned
get_source_index(p, edge_index) ==
    p.edges[p.map_edges[edge_index.store_id][1].mem_id + 1].source

get_target_index(p, edge_index) ==
    p.edges[p.map_edges[edge_index.store_id][1].mem_id + 1].target

NextOf(edge, inbound) ==
    IF inbound THEN edge.next_inbound_edge ELSE edge.next_outbound_edge

\* map_edges.insert(store id, (pid, edge_data)), then the step to the next edge
InsertEdgeEntry(a, sid, edata, inbound) ==
    IF a.v.mem_id < Len(a.s.edges)
    THEN Ret([a.s EXCEPT !.map_edges = MapPut(@, sid, <<a.v, edata>>)],
             [current_edge_index |-> NextOf(a.s.edges[a.v.mem_id + 1], inbound),
              item |-> Some(a.v)])
    ELSE Fail([a.s EXCEPT !.map_edges = MapPut(@, sid, <<a.v, edata>>)])

\* next() without the look-up in map_edges
EdgesNext_uncached(p, edge_index, inbound) ==
    Bind(RepoCall(p, retrieve_edge_data_by_id(p.repository, edge_index.store_id)),
         LAMBDA d :
            Bind(add_edge(d.s, d.v, edge_index.store_id),
                 LAMBDA a : InsertEdgeEntry(a, edge_index.store_id, d.v, inbound)))

\* OutEdges::next / InEdges::next with current_edge_index = Some(edge_index);
\* the value is the iterator's new current_edge_index and the item returned
EdgesNext(p, edge_index, inbound) ==
    IF edge_index.store_id \in DOMAIN p.map_edges
    THEN IF p.map_edges[edge_index.store_id][1].mem_id < Len(p.edges)
         THEN Ret(p, [current_edge_index |->
                          NextOf(p.edges[p.map_edges[edge_index.store_id][1].mem_id + 1],
                                 inbound),
                      item |-> Some(p.map_edges[edge_index.store_id][1])])
         ELSE Fail(p)
    ELSE Bind(RepoCall(p, retrieve_edge_data_by_id(p.repository, edge_index.store_id)),
              LAMBDA d :
                 Bind(add_edge(d.s, d.v, edge_index.store_id),
                      LAMBDA a : InsertEdgeEntry(a, edge_index.store_id, d.v, inbound)))

\* the operation starts with its call counter at 0
Fresh(p) == [p EXCEPT !.calls = 0]

(***************************************************************************)
(* VF2: BaseState (matcher/vf2/base_state.rs of zawgl-core) and the         *)
(* functions of state.rs that work on its fields.  A function that works on *)
(* graph_1 gives [base_state, graph, panic]: the proxy as the function      *)
(* leaves it, and whether the function has panicked, base_state being then  *)
(* what it had written before.                                              *)
(***************************************************************************)
\* BaseState::new
NewBaseState ==
    [core_map |-> EmptyMap, in_map |-> EmptyMap, out_map |-> EmptyMap,
     core_count |-> 0, term_in_count |-> 0, term_out_count |-> 0,
     term_both_count |-> 0]

in_core(bs, v) == v \in DOMAIN bs.core_map

core(bs, v) == IF v \in DOMAIN bs.core_map THEN Some(bs.core_map[v]) ELSE None

count(bs) == bs.core_count

in_depth(bs, v) == IF v \in DOMAIN bs.in_map THEN bs.in_map[v] ELSE 0

out_depth(bs, v) == IF v \in DOMAIN bs.out_map THEN bs.out_map[v] ELSE 0

\* the terminal sets hold the vertices next to the core that are not mapped;
\* each mapped vertex is in in_map and in out_map, so a set has such a vertex
\* when its counter exceeds core_count
term_in(bs) == bs.core_count < bs.term_in_count

term_out(bs) == bs.core_count < bs.term_out_count

term_both(bs) == bs.core_count < bs.term_both_count

\* the three tests are those of src/src/matcher/vf2/base_state.rs:
\* term_in_vertex takes a vertex outside the core, term_out_vertex and
\* term_both_vertex test core_map.contains_key without the negation
term_in_vertex(bs, v) ==
    v \in DOMAIN bs.in_map /\ bs.in_map[v] > 0 /\ v \notin DOMAIN bs.core_map

term_out_vertex(bs, v) ==
    v \in DOMAIN bs.out_map /\ bs.out_map[v] > 0 /\ v \in DOMAIN bs.core_map

term_both_vertex(bs, v) ==
    /\ v \in DOMAIN bs.in_map /\ v \in DOMAIN bs.out_map
    /\ v \in DOMAIN bs.core_map /\ bs.in_map[v] > 0 /\ bs.out_map[v] > 0

\* `if !in_map.contains_key(v) { in_map.insert(v, core_count); ... }`
EnterIn(bs, v) ==
    IF v \in DOMAIN bs.in_map THEN bs
    ELSE [bs EXCEPT !.in_map = MapPut(@, v, bs.core_count),
                    !.term_in_count = @ + 1,
                    !.term_both_count =
                        IF v \in DOMAIN bs.out_map THEN @ + 1 ELSE @]

\* `if !out_map.contains_key(v) { out_map.insert(v, core_count); ... }`
EnterOut(bs, v) ==
    IF v \in DOMAIN bs.out_map THEN bs
    ELSE [bs EXCEPT !.out_map = MapPut(@, v, bs.core_count),
                    !.term_out_count = @ + 1,
                    !.term_both_count =
                        IF v \in DOMAIN bs.in_map THEN @ + 1 ELSE @]


RECURSIVE EnterAncestors(_, _, _)
\* `for edge_index in graph.in_edges(&v0)` of push_state_0 / push_state_1,
\* vs being the vertices get_source_index gives
EnterAncestors(bs, vs, i) ==
    IF i > Len(vs) THEN bs ELSE EnterAncestors(EnterIn(bs, vs[i]), vs, i + 1)

RECURSIVE EnterSuccessors(_, _, _)
\* `for edge_index in graph.out_edges(&v0)` of push_state_0 / push_state_1
EnterSuccessors(bs, vs, i) ==
    IF i > Len(vs) THEN bs ELSE EnterSuccessors(EnterOut(bs, vs[i]), vs, i + 1)

\* core_count += 1; core_map.insert(v0, v1)
EnterCore(bs, v0, v1) ==
    [bs EXCEPT !.core_count = @ + 1, !.core_map = MapPut(@, v0, v1)]

\* the vertices get_source_index (inbound) or get_target_index gives in a
\* loop over the in_edges or the out_edges of v in the pattern
Ends0(g, v, inbound) ==
    IF inbound
    THEN [i \in 1..Len(PropertyGraph_in_edges(g, v)) |->
             PropertyGraph_get_source_index(g, PropertyGraph_in_edges(g, v)[i])]
    ELSE [i \in 1..Len(PropertyGraph_out_edges(g, v)) |->
             PropertyGraph_get_target_index(g, PropertyGraph_out_edges(g, v)[i])]

RECURSIVE ProxyLoop(_, _, _, _)
\* a `for` loop over an InEdges / OutEdges iterator of the proxy: next() is
\* called until it returns None; adj lists the edges returned and the vertex
\* get_source_index (inbound) or get_target_index gives for each
ProxyLoop(p, current_edge_index, inbound, adj) ==
    IF current_edge_index = None THEN Ret(p, adj)
    ELSE With(EdgesNext(p, current_edge_index[1], inbound),
              LAMBDA n :
                 IF n.ok
                 THEN ProxyLoop(n.s, n.v.current_edge_index, inbound,
                          Append(adj,
                              [edge |-> n.v.item[1].store_id,
                               v |-> IF inbound
                                     THEN get_source_index(n.s, n.v.item[1]).store_id
                                     ELSE get_target_index(n.s, n.v.item[1]).store_id]))
                 ELSE Ret(n.s, adj))

\* `for edge_index in graph.in_edges(&v)` / out_edges(&v) on the proxy
Ends1(p, v, inbound) ==
    Bind(IF inbound THEN in_edges(p, new_db(v)) ELSE out_edges(p, new_db(v)),
         LAMBDA it : ProxyLoop(it.s, it.v, inbound, <<>>))

Far(adj) == [i \in 1..Len(adj) |-> adj[i].v]

push_state_0(base_state, graph, v0, v1) ==
    EnterSuccessors(
        EnterAncestors(
            EnterOut(EnterIn(EnterCore(base_state, v0, v1), v0), v0),
            Ends0(graph, v0, TRUE), 1),
        Ends0(graph, v0, FALSE), 1)

\* what a function on graph_1 leaves behind
On1(base_state, graph, panic) ==
    [base_state |-> base_state, graph |-> graph, panic |-> panic]

\* the two loops of push_state_1; graph.in_edges(&v0) panics when the proxy
\* has not loaded v0
EnterEnds1(bs, graph, v0) ==
    With(Ends1(graph, v0, TRUE),
         LAMBDA a :
            IF ~a.ok THEN On1(bs, a.s, TRUE)
            ELSE With(Ends1(a.s, v0, FALSE),
                      LAMBDA s :
                         On1(EnterSuccessors(EnterAncestors(bs, Far(a.v), 1),
                                             Far(s.v), 1),
                             s.s, FALSE)))

\* push_state_1 without `core_count += 1`
push_state_1_uncounted(base_state, graph, v0, v1) ==
    EnterEnds1(EnterOut(EnterIn([base_state EXCEPT !.core_map = MapPut(@, v0, v1)],
                                v0), v0),
               graph, v0)

push_state_1(base_state, graph, v0, v1) ==
    EnterEnds1(EnterOut(EnterIn(EnterCore(base_state, v0, v1), v0), v0),
               graph, v0)

\* `if let Some(in_count) = in_map.get(v) { if *in_count == core_count { .. } }`
LeaveIn(bs, v) ==
    IF v \in DOMAIN bs.in_map /\ bs.in_map[v] = bs.core_count
    THEN [bs EXCEPT !.in_map = MapDel(@, v),
                    !.term_in_count = @ - 1,
                    !.term_both_count =
                        IF v \in DOMAIN bs.out_map /\ @ > 0 THEN @ - 1 ELSE @]
    ELSE bs

\* LeaveOut without `term_both_count -= 1`
LeaveOut_both_kept(bs, v) ==
    IF v \in DOMAIN bs.out_map /\ bs.out_map[v] = bs.core_count
    THEN [bs EXCEPT !.out_map = MapDel(@, v), !.term_out_count = @ - 1]
    ELSE bs

\* `if let Some(out_count) = out_map.get(v) { if *out_count == core_count { .. } }`
LeaveOut(bs, v) ==
    IF v \in DOMAIN bs.out_map /\ bs.out_map[v] = bs.core_count
    THEN [bs EXCEPT !.out_map = MapDel(@, v),
                    !.term_out_count = @ - 1,
                    !.term_both_count =
                        IF v \in DOMAIN bs.in_map /\ @ > 0 THEN @ - 1 ELSE @]
    ELSE bs


RECURSIVE LeaveAncestors(_, _, _)
\* `for in_edge in graph.in_edges(&v0)` of pop_state_0 / pop_state_1
LeaveAncestors(bs, vs, i) ==
    IF i > Len(vs) THEN bs ELSE LeaveAncestors(LeaveIn(bs, vs[i]), vs, i + 1)

RECURSIVE LeaveSuccessors(_, _, _)
\* `for out_edge in graph.out_edges(&v0)` of pop_state_0 / pop_state_1
LeaveSuccessors(bs, vs, i) ==
    IF i > Len(vs) THEN bs ELSE LeaveSuccessors(LeaveOut(bs, vs[i]), vs, i + 1)

\* core_map.remove(v0); core_count -= 1
LeaveCore(bs, v0) ==
    [bs EXCEPT !.core_map = MapDel(@, v0), !.core_count = @ - 1]

\* pop_state_0 without its loop over graph.out_edges(v0)
pop_state_0_keeps_successors(base_state, graph, v0) ==
    IF base_state.core_count = 0 THEN base_state
    ELSE LeaveCore(
             LeaveOut(
                 LeaveAncestors(LeaveIn(base_state, v0),
                                Ends0(graph, v0, TRUE), 1),
                 v0),
             v0)

pop_state_0(base_state, graph, v0) ==
    IF base_state.core_count = 0 THEN base_state
    ELSE LeaveCore(
             LeaveSuccessors(
                 LeaveOut(
                     LeaveAncestors(LeaveIn(base_state, v0),
                                    Ends0(graph, v0, TRUE), 1),
                     v0),
                 Ends0(graph, v0, FALSE), 1),
             v0)

\* pop_state_1: graph.in_edges(&v0) panics when the proxy has not loaded v0
pop_state_1(base_state, graph, v0) ==
    IF base_state.core_count = 0 THEN On1(base_state, graph, FALSE)
    ELSE With(Ends1(graph, v0, TRUE),
              LAMBDA a :
                 IF ~a.ok THEN On1(LeaveIn(base_state, v0), a.s, TRUE)
                 ELSE With(Ends1(a.s, v0, FALSE),
                           LAMBDA s :
                              On1(LeaveCore(
                                      LeaveSuccessors(
                                          LeaveOut(
                                              LeaveAncestors(LeaveIn(base_state, v0),
                                                             Far(a.v), 1),
                                              v0),
                                          Far(s.v), 1),
                                      v0),
                                  s.s, FALSE)))

(***************************************************************************)
(* VF2: State.  st = [base_state_0, base_state_1]; graph_0 is the pattern,  *)
(* graph_1 the proxy of the target.  push and pop give [st, graph_1,        *)
(* panic].                                                                  *)
(***************************************************************************)
\* State::new
NewState == [base_state_0 |-> NewBaseState, base_state_1 |-> NewBaseState]

\* the State after push_state_0 / pop_state_0 gave b0 and push_state_1 /
\* pop_state_1 gave r
Both(b0, r) ==
    [st |-> [base_state_0 |-> b0, base_state_1 |-> r.base_state],
     graph_1 |-> r.graph, panic |-> r.panic]

\* State::push
push(st, graph_0, graph_1, v0, v1) ==
    Both(push_state_0(st.base_state_0, graph_0, v0, v1),
         push_state_1(st.base_state_1, graph_1, v1, v0))

\* State::pop: the target vertex popped is the one core_map gives for v0
pop(st, graph_0, graph_1, v0, v1) ==
    IF v0 \in DOMAIN st.base_state_0.core_map
    THEN Both(pop_state_0(st.base_state_0, graph_0, v0),
              pop_state_1(st.base_state_1, graph_1, st.base_state_0.core_map[v0]))
    ELSE [st |-> st, graph_1 |-> graph_1, panic |-> FALSE]

(***************************************************************************)
(* VF2: State::feasible.  The counters are cnt = [term_in, term_out, rest]; *)
(* a loop's state is acc = [res, cnt, matched, graph_1, panic], res the     *)
(* Option<bool> the loop's last call returned, matched its                  *)
(* matched_edge_set and graph_1 the proxy as the call left it.              *)
(***************************************************************************)
ZeroCnt == [term_in |-> 0, term_out |-> 0, rest |-> 0]

\* the three `if`s that count an adjacent vertex outside the core
CountAdj(bs, cnt, adj) ==
    [term_in |-> cnt.term_in + (IF in_depth(bs, adj) > 0 THEN 1 ELSE 0),
     term_out |-> cnt.term_out + (IF out_depth(bs, adj) > 0 THEN 1 ELSE 0),
     rest |-> cnt.rest
              + (IF in_depth(bs, adj) = 0 /\ out_depth(bs, adj) = 0
                 THEN 1 ELSE 0)]

\* what edge_exists_1 returns, its matched_edge_set and the proxy after it
EdgeExists(res, matched, p, panic) ==
    [res |-> res, matched |-> matched, graph_1 |-> p, panic |-> panic]

RECURSIVE EdgeExistsLoop(_, _, _, _, _)
\* the loop of edge_exists_1 over graph_1.out_edges(source): r is the
\* relationship get_relationship_ref returns for the edge
EdgeExistsLoop(p, current_edge_index, target, r0, matched) ==
    IF current_edge_index = None THEN EdgeExists(Some(FALSE), matched, p, FALSE)
    ELSE With(EdgesNext(p, current_edge_index[1], FALSE),
              LAMBDA n :
                 IF ~n.ok THEN EdgeExists(Some(FALSE), matched, n.s, FALSE)
                 ELSE IF /\ get_target_index(n.s, n.v.item[1]).store_id = target
                         /\ n.v.item[1].store_id \notin matched
                 THEN With(get_relationship_ref(n.s, n.v.item[1]),
                           LAMBDA r :
                              IF ~r.ok
                              THEN EdgeExists(None, matched, r.s, r.v = "panic")
                              ELSE IF edge_comp(r0, r.v.label)
                              THEN EdgeExists(Some(TRUE),
                                              matched \cup {n.v.item[1].store_id},
                                              r.s, FALSE)
                              ELSE EdgeExistsLoop(r.s, n.v.current_edge_index,
                                                  target, r0, matched))
                 ELSE EdgeExistsLoop(n.s, n.v.current_edge_index, target, r0,
                                     matched))

\* graph_1.out_edges(source) panics when the proxy has not loaded source
edge_exists_1(graph_1, source, target, r0, matched) ==
    With(out_edges(graph_1, new_db(source)),
         LAMBDA it :
            IF it.ok THEN EdgeExistsLoop(it.s, it.v, target, r0, matched)
            ELSE EdgeExists(None, matched, it.s, TRUE))

\* `let mut w = *w_new; if v_adj != v_new { if let Some(&ws) = core(v_adj) { w = ws } }`
ImageOfAdj(bs, v_new, v_adj, w_new) ==
    IF v_adj # v_new /\ in_core(bs, v_adj) THEN bs.core_map[v_adj] ELSE w_new

\* the result of inc_counters_match_edge_0 after its call of edge_exists_1
EdgeChecked(x, cnt) ==
    [res |-> x.res, cnt |-> cnt, matched |-> x.matched, graph_1 |-> x.graph_1,
     panic |-> x.panic]

\* a call that counts the adjacent vertex and returns Some(true)
Counted(bs, cnt, adj, matched, graph_1) ==
    [res |-> Some(TRUE), cnt |-> CountAdj(bs, cnt, adj), matched |-> matched,
     graph_1 |-> graph_1, panic |-> FALSE]

inc_counters_match_edge_0(st, graph_0, graph_1, is_inbound, cnt, v_new, v_adj, w_new, edge_index, matched) ==
    IF in_core(st.base_state_0, v_adj) \/ v_new = v_adj
    THEN EdgeChecked(
             IF is_inbound
             THEN edge_exists_1(graph_1,
                                ImageOfAdj(st.base_state_0, v_new, v_adj, w_new),
                                w_new, graph_0.e[edge_index].l, matched)
             ELSE edge_exists_1(graph_1, w_new,
                                ImageOfAdj(st.base_state_0, v_new, v_adj, w_new),
                                graph_0.e[edge_index].l, matched),
             cnt)
    ELSE Counted(st.base_state_0, cnt, v_adj, matched, graph_1)

inc_counters_match_edge_1(st, graph_1, is_inbound, cnt, w_new, w_adj, matched) ==
    IF in_core(st.base_state_1, w_adj) \/ w_new = w_adj
    THEN [res |-> Some(TRUE), cnt |-> cnt, matched |-> matched,
          graph_1 |-> graph_1, panic |-> FALSE]
    ELSE Counted(st.base_state_1, cnt, w_adj, matched, graph_1)

\* the vertex at the other end of a pattern edge of the vertex a loop runs on
AdjOf(g, is_inbound, edge_index) ==
    IF is_inbound THEN PropertyGraph_get_source_index(g, edge_index)
    ELSE PropertyGraph_get_target_index(g, edge_index)

RECURSIVE FeasibleLoop0(_, _, _, _, _, _, _, _)
\* a loop of feasible over the in-edges or the out-edges of v_new; it ends
\* at the first call that does not return Some(true)
FeasibleLoop0(st, graph_0, is_inbound, es, i, v_new, w_new, acc) ==
    IF i > Len(es) \/ acc.res # Some(TRUE) THEN acc
    ELSE FeasibleLoop0(st, graph_0, is_inbound, es, i + 1, v_new, w_new,
             inc_counters_match_edge_0(st, graph_0, acc.graph_1, is_inbound,
                 acc.cnt, v_new, AdjOf(graph_0, is_inbound, es[i]), w_new, es[i],
                 acc.matched))

RECURSIVE FeasibleLoop1(_, _, _, _, _, _)
\* a loop of feasible over the in-edges or the out-edges of w_new, vs being
\* the vertices at their other ends
FeasibleLoop1(st, is_inbound, vs, i, w_new, acc) ==
    IF i > Len(vs) \/ acc.res # Some(TRUE) THEN acc
    ELSE FeasibleLoop1(st, is_inbound, vs, i + 1, w_new,
             inc_counters_match_edge_1(st, acc.graph_1, is_inbound, acc.cnt,
                 w_new, vs[i], acc.matched))

\* `let mut matched_edge_set = HashSet::new();` at the head of a loop
FreshEdgeSet(acc) == [acc EXCEPT !.matched = {}]

StartAcc(graph_1) ==
    [res |-> Some(TRUE), cnt |-> ZeroCnt, matched |-> {}, graph_1 |-> graph_1,
     panic |-> FALSE]

\* the two loops of feasible on graph_0
Counted0(st, graph_0, graph_1, v_new, w_new) ==
    FeasibleLoop0(st, graph_0, FALSE, PropertyGraph_out_edges(graph_0, v_new), 1,
        v_new, w_new,
        FreshEdgeSet(FeasibleLoop0(st, graph_0, TRUE,
            PropertyGraph_in_edges(graph_0, v_new), 1, v_new, w_new,
            StartAcc(graph_1))))

\* the two loops of feasible on graph_1; graph_1.in_edges(w_new) panics when
\* the proxy has not loaded w_new
Counted1(st, graph_1, w_new) ==
    With(Ends1(graph_1, w_new, TRUE),
         LAMBDA a :
            IF ~a.ok THEN [StartAcc(a.s) EXCEPT !.res = None, !.panic = TRUE]
            ELSE With(Ends1(a.s, w_new, FALSE),
                      LAMBDA s :
                         FeasibleLoop1(st, FALSE, Far(s.v), 1, w_new,
                             FreshEdgeSet(FeasibleLoop1(st, TRUE, Far(a.v), 1,
                                              w_new, StartAcc(s.s))))))

\* the end of feasible: c0 and c1 are what the loops on graph_0 and on
\* graph_1 counted
FeasibleResult(c0, c1) ==
    Some(/\ c0.cnt.term_in <= c1.cnt.term_in
         /\ c0.cnt.term_out <= c1.cnt.term_out
         /\ c0.cnt.rest <= c1.cnt.rest)

\* what feasible returns, and the proxy after it
Feasibility(res, graph_1, panic) ==
    [res |-> res, graph_1 |-> graph_1, panic |-> panic]

\* feasible from its loops on: w is what graph_1.get_node_ref(w_new) gave
FeasibleOn(st, graph_0, v_new, w_new, w) ==
    With(Counted0(st, graph_0, w.s, v_new, w_new),
         LAMBDA c0 :
            IF c0.res # Some(TRUE) THEN Feasibility(c0.res, c0.graph_1, c0.panic)
            ELSE With(Counted1(st, c0.graph_1, w_new),
                      LAMBDA c1 :
                         IF c1.res # Some(TRUE)
                         THEN Feasibility(c1.res, c1.graph_1, c1.panic)
                         ELSE Feasibility(FeasibleResult(c0, c1), c1.graph_1,
                                          FALSE)))

\* State::feasible: res is None, Some(FALSE) or Some(TRUE); vertex_comp gets
\* the node get_node_ref has returned
feasible(st, graph_0, graph_1, v_new, w_new) ==
    With(get_node_ref(graph_1, new_db(w_new)),
         LAMBDA w :
            IF ~w.ok THEN Feasibility(None, w.s, w.v = "panic")
            ELSE IF ~vertex_comp(graph_0.vl[v_new], w.v.label)
            THEN Feasibility(Some(FALSE), w.s, FALSE)
            ELSE FeasibleOn(st, graph_0, v_new, w_new, w))

possible_candidate_0(st, v0) ==
    IF term_both(st.base_state_0) /\ term_both(st.base_state_1)
    THEN term_both_vertex(st.base_state_0, v0)
    ELSE IF term_out(st.base_state_0) /\ term_out(st.base_state_1)
    THEN term_out_vertex(st.base_state_0, v0)
    ELSE IF term_in(st.base_state_0) /\ term_in(st.base_state_1)
    THEN term_in_vertex(st.base_state_0, v0)
    ELSE ~in_core(st.base_state_0, v0)

possible_candidate_1(st, v1) ==
    IF term_both(st.base_state_0) /\ term_both(st.base_state_1)
    THEN term_both_vertex(st.base_state_1, v1)
    ELSE IF term_out(st.base_state_0) /\ term_out(st.base_state_1)
    THEN term_out_vertex(st.base_state_1, v1)
    ELSE IF term_in(st.base_state_0) /\ term_in(st.base_state_1)
    THEN term_in_vertex(st.base_state_1, v1)
    ELSE ~in_core(st.base_state_1, v1)

\* State::success
success(st, graph_0) == count(st.base_state_0) = nodes_len(graph_0)


(***************************************************************************)
(* VF2: the graphs explored.                                                *)
(***************************************************************************)
\* a self-loop, two parallel edges, a neighbour that is predecessor and
\* successor, and a plain predecessor
PLoops ==
    Graph(<<"N", "N", "N">>,
          <<Edge(1, 1, "r"), Edge(1, 2, "r"), Edge(1, 2, "r"), Edge(2, 1, "r"),
            Edge(3, 1, "r")>>)

PActorMovie == Graph(<<"Actor", "Movie">>, <<Edge(1, 2, "PLAYED_IN")>>)

\* two vertices with an edge to a third
PFork == Graph(<<"N", "N", "N">>, <<Edge(1, 3, "r"), Edge(2, 3, "r")>>)

\* two vertices without an edge
PPair == Graph(<<"N", "N">>, <<>>)

\* two edges without a common vertex
PTwoEdges ==
    Graph(<<"N", "N", "N", "N">>, <<Edge(1, 2, "r"), Edge(3, 4, "r")>>)

PatternGraphs == {PLoops, PActorMovie, PFork, PPair, PTwoEdges}

TLoops ==
    Graph(<<"N", "N", "N">>,
          <<Edge(1, 1, "r"), Edge(1, 2, "r"), Edge(1, 2, "r"), Edge(2, 1, "r"),
            Edge(3, 1, "r"), Edge(2, 3, "r")>>)

\* 3 actors, 2 movies and all 6 edges from an actor to a movie
TActorsMovies ==
    Graph(<<"Actor", "Actor", "Actor", "Movie", "Movie">>,
          <<Edge(1, 4, "PLAYED_IN"), Edge(1, 5, "PLAYED_IN"),
            Edge(2, 4, "PLAYED_IN"), Edge(2, 5, "PLAYED_IN"),
            Edge(3, 4, "PLAYED_IN"), Edge(3, 5, "PLAYED_IN")>>)

\* the fork with one more edge, between the two sources
TFork ==
    Graph(<<"N", "N", "N">>,
          <<Edge(1, 3, "r"), Edge(2, 3, "r"), Edge(1, 2, "r")>>)

TDiamond ==
    Graph(<<"N", "N", "N", "N">>,
          <<Edge(1, 2, "r"), Edge(1, 3, "r"), Edge(2, 4, "r"), Edge(3, 4, "r")>>)

TargetGraphs == {TLoops, TActorsMovies, TFork, TDiamond}


(***************************************************************************)
(* VF2: State::push and State::pop called as a matcher calls them: a push   *)
(* of a pattern vertex and a target vertex that are outside the core, the   *)
(* pops in the reverse order of the pushes.  A matcher calls feasible(v, w) *)
(* before it pushes the pair, and feasible starts with                      *)
(* graph_1.get_node_ref(w), which loads w into the proxy: GetNode is that   *)
(* call.  A push of a target vertex the proxy has not loaded panics.        *)
(* vf = [graph_0, target, graph_1, st, stack, panicked]: target is the      *)
(* graph in the repository of the proxy graph_1, the stack holds the pairs  *)
(* pushed and the State each push started from; vh = [op, v0, v1, pre]      *)
(* tells the last call and, for a pop, the State before the push it undoes. *)
(***************************************************************************)
\* the targets of the pushes and pops: the proxy of a target keeps the order
\* in which its vertices and edges were loaded
VfTargets == {TLoops, TFork}

VfInit ==
    /\ \E g0 \in PatternGraphs : \E g1 \in VfTargets :
           vf = [graph_0 |-> g0, target |-> g1,
                 graph_1 |-> NewProxy(Repository(g1)), st |-> NewState,
                 stack |-> <<>>, panicked |-> FALSE]
    /\ vh = [op |-> "new", v0 |-> 0, v1 |-> 0, pre |-> NewState]
    /\ rm = 0 /\ mem = 0 /\ hist = 0 /\ ops = 0 /\ conc = 0 /\ mt = 0 /\ sys = 0

\* graph_1.get_node_ref(v1) of a vertex outside the core
GetNode(v1) ==
    /\ ~vf.panicked
    /\ ~in_core(vf.st.base_state_1, v1)
    /\ v1 \notin DOMAIN vf.graph_1.map_vertices
    /\ vf' = [vf EXCEPT !.graph_1 = Fresh(get_node_ref(@, new_db(v1)).s)]
    /\ vh' = [op |-> "get_node_ref", v0 |-> 0, v1 |-> v1, pre |-> vf.st]
    /\ UNCHANGED <<rm, mem, hist, ops, conc, mt, sys>>

\* vf after a push or a pop gave r
Called1(r, stack) ==
    [vf EXCEPT !.st = r.st, !.graph_1 = Fresh(r.graph_1), !.stack = stack,
               !.panicked = r.panic]

Push(v0, v1) ==
    /\ ~vf.panicked
    /\ ~in_core(vf.st.base_state_0, v0)
    /\ ~in_core(vf.st.base_state_1, v1)
    /\ vf' = Called1(push(vf.st, vf.graph_0, vf.graph_1, v0, v1),
                     Append(vf.stack, [v0 |-> v0, v1 |-> v1, pre |-> vf.st]))
    /\ vh' = [op |-> "push", v0 |-> v0, v1 |-> v1, pre |-> vf.st]
    /\ UNCHANGED <<rm, mem, hist, ops, conc, mt, sys>>

Pop ==
    /\ ~vf.panicked
    /\ vf.stack # <<>>
    /\ vf' = Called1(pop(vf.st, vf.graph_0, vf.graph_1,
                         vf.stack[Len(vf.stack)].v0, vf.stack[Len(vf.stack)].v1),
                     SubSeq(vf.stack, 1, Len(vf.stack) - 1))
    /\ vh' = [op |-> "pop", v0 |-> vf.stack[Len(vf.stack)].v0,
              v1 |-> vf.stack[Len(vf.stack)].v1,
              pre |-> vf.stack[Len(vf.stack)].pre]
    /\ UNCHANGED <<rm, mem, hist, ops, conc, mt, sys>>

VfNext ==
    \/ \E v1 \in 1..nodes_len(vf.target) : GetNode(v1)
    \/ \E v0 \in 1..nodes_len(vf.graph_0) : \E v1 \in 1..nodes_len(vf.target) :
           Push(v0, v1)
    \/ Pop

VfSpec == VfInit /\ [][VfNext]_vars

InverseMaps(m0, m1) ==
    /\ \A v \in DOMAIN m0 : m0[v] \in DOMAIN m1 /\ m1[m0[v]] = v
    /\ \A w \in DOMAIN m1 : m1[w] \in DOMAIN m0 /\ m0[m1[w]] = w

NoVertex == 0

RECURSIVE FirstCandidate0(_, _, _)
\* the first pattern vertex from v on that possible_candidate_0 accepts
FirstCandidate0(st, graph_0, v) ==
    IF v > nodes_len(graph_0) THEN NoVertex
    ELSE IF possible_candidate_0(st, v) THEN v
    ELSE FirstCandidate0(st, graph_0, v + 1)

\* the pattern vertex the current level extends the core with
Chosen == FirstCandidate0(mt.st, mt.graph_0, 1)

\* the current level has a pattern vertex and a target vertex left to try
HasNext == Chosen # NoVertex /\ mt.next <= nodes_len(mt.target)

\* feasible(v, w) of the pair the current level tries
Tried == feasible(mt.st, mt.graph_0, mt.graph_1, Chosen, mt.next)

\* the pair (Chosen, mt.next) passes the candidate rule and feasible
Accepts ==
    /\ possible_candidate_1(mt.st, mt.next)
    /\ Tried.res = Some(TRUE)

\* feasible reports a target vertex that cannot be resolved
HardFailure ==
    /\ possible_candidate_1(mt.st, mt.next)
    /\ Tried.res = None

\* the caller's pop(v) after match() returned, and its next candidate
Unwind(m) ==
    IF m.stack = <<>> THEN [m EXCEPT !.done = TRUE]
    ELSE [m EXCEPT
             !.st = pop(m.st, m.graph_0, m.graph_1, m.stack[Len(m.stack)].v0,
                        m.stack[Len(m.stack)].v1).st,
             !.graph_1 = Fresh(pop(m.st, m.graph_0, m.graph_1,
                                   m.stack[Len(m.stack)].v0,
                                   m.stack[Len(m.stack)].v1).graph_1),
             !.next = m.stack[Len(m.stack)].v1 + 1,
             !.stack = SubSeq(@, 1, Len(@) - 1)]

MatchInit ==
    /\ \E g0 \in PatternGraphs : \E g1 \in TargetGraphs :
           mt = [graph_0 |-> g0, target |-> g1,
                 graph_1 |-> NewProxy(Repository(g1)), st |-> NewState,
                 stack |-> <<>>, next |-> 1, emitted |-> <<>>, done |-> FALSE]
    /\ rm = 0 /\ mem = 0 /\ hist = 0 /\ ops = 0 /\ conc = 0 /\ vf = 0 /\ vh = 0 /\ sys = 0

\* success: the callback gets the two core_maps, and match() returns
Emit ==
    /\ ~mt.done
    /\ success(mt.st, mt.graph_0)
    /\ mt' = Unwind([mt EXCEPT !.emitted =
                        Append(@, [map_0 |-> mt.st.base_state_0.core_map,
                                   map_1 |-> mt.st.base_state_1.core_map])])
    /\ UNCHANGED <<rm, mem, hist, ops, conc, vf, vh, sys>>

\* the next target vertex is accepted: push and descend
Extend ==
    /\ ~mt.done
    /\ ~success(mt.st, mt.graph_0)
    /\ HasNext
    /\ Accepts
    /\ mt' = [mt EXCEPT
                 !.st = push(mt.st, mt.graph_0, Tried.graph_1, Chosen, mt.next).st,
                 !.graph_1 = Fresh(push(mt.st, mt.graph_0, Tried.graph_1, Chosen,
                                        mt.next).graph_1),
                 !.stack = Append(@, [v0 |-> Chosen, v1 |-> mt.next]),
                 !.next = 1]
    /\ UNCHANGED <<rm, mem, hist, ops, conc, vf, vh, sys>>

\* the next target vertex is not accepted: go on with the one after it, or
\* give the level up when the vertex cannot be resolved
Reject ==
    /\ ~mt.done
    /\ ~success(mt.st, mt.graph_0)
    /\ HasNext
    /\ ~Accepts
    /\ mt' = [mt EXCEPT
                 !.graph_1 = IF possible_candidate_1(mt.st, mt.next)
                             THEN Fresh(Tried.graph_1) ELSE @,
                 !.next = IF HardFailure THEN nodes_len(mt.target) + 1 ELSE @ + 1]
    /\ UNCHANGED <<rm, mem, hist, ops, conc, vf, vh, sys>>

\* the level has nothing left to try: match() returns
Backtrack ==
    /\ ~mt.done
    /\ ~success(mt.st, mt.graph_0)
    /\ ~HasNext
    /\ mt' = Unwind(mt)
    /\ UNCHANGED <<rm, mem, hist, ops, conc, vf, vh, sys>>

MatchNext == Emit \/ Extend \/ Reject \/ Backtrack

MatchSpec == MatchInit /\ [][MatchNext]_vars

\* a map is injective
Injective(m) == \A a \in DOMAIN m : \A b \in DOMAIN m : m[a] = m[b] => a = b

\* C9: every map handed to the callback has one entry for every pattern
\* vertex and is injective: no two pattern vertices have the same target
\* vertex, no target vertex is the image of two pattern vertices.
C9_EmittedMapsInjective ==
    \A i \in 1..Len(mt.emitted) :
        /\ DOMAIN mt.emitted[i].map_0 = 1..nodes_len(mt.graph_0)
        /\ Injective(mt.emitted[i].map_0)
        /\ Cardinality({mt.emitted[i].map_0[v] : v \in DOMAIN mt.emitted[i].map_0})
               = nodes_len(mt.graph_0)

\* what does hold: every map handed to the callback is injective, and the
\* target-side map is its inverse
EmittedMapsOneToOne ==
    \A i \in 1..Len(mt.emitted) :
        /\ Injective(mt.emitted[i].map_0)
        /\ InverseMaps(mt.emitted[i].map_0, mt.emitted[i].map_1)

\* the edges of g from s to t with the label l
EdgesBetween(g, s, t, l) ==
    {i \in 1..Len(g.e) : g.e[i].s = s /\ g.e[i].t = t /\ g.e[i].l = l}

\* m maps the pattern into the target: it is injective, vertex_comp holds
\* for every vertex, and the edges from u to v have as many edges with
\* edge_comp from m[u] to m[v] to be matched with, one each
IsMapping(graph_0, graph_1, m) ==
    /\ Injective(m)
    /\ \A v \in DOMAIN m : vertex_comp(graph_0.vl[v], graph_1.vl[m[v]])
    /\ \A i \in 1..Len(graph_0.e) :
           Cardinality(EdgesBetween(graph_0, graph_0.e[i].s, graph_0.e[i].t,
                                    graph_0.e[i].l))
               <= Cardinality(EdgesBetween(graph_1, m[graph_0.e[i].s],
                                           m[graph_0.e[i].t], graph_0.e[i].l))

Mappings(graph_0, graph_1) ==
    {m \in [1..nodes_len(graph_0) -> 1..nodes_len(graph_1)] :
        IsMapping(graph_0, graph_1, m)}

\* C10: when the match has ended, the maps handed to the callback are the
\* mappings of the pattern into the target, each of them once.
C10_EmitsEveryMappingOnce ==
    mt.done =>
        /\ {mt.emitted[i].map_0 : i \in 1..Len(mt.emitted)}
               = Mappings(mt.graph_0, mt.target)
        /\ \A i \in 1..Len(mt.emitted) : \A j \in 1..Len(mt.emitted) :
               mt.emitted[i].map_0 = mt.emitted[j].map_0 => i = j



(***************************************************************************)
(* The proxy as a state machine: get_node_ref, get_relationship_ref, the   *)
(* start of an out_edges / in_edges iteration and one next() of the        *)
(* iterator under way, in any order.  sys.it is the iterator (its vertex,   *)
(* direction, current_edge_index, the store ids it returned and the        *)
(* repository calls its next() made), sys.done the sequence each finished   *)
(* iteration returned the first time, sys.last the iteration finished last. *)
(***************************************************************************)
NoIter == [active |-> FALSE, inbound |-> FALSE, v |-> 0,
           current_edge_index |-> None, seq |-> <<>>, calls |-> 0]

NoLast == [ended |-> FALSE, v |-> 0, inbound |-> FALSE, seq |-> <<>>, calls |-> 0,
           again |-> FALSE]

ProxyInit ==
    /\ sys = [p |-> NewProxy(Repo), it |-> NoIter, done |-> EmptyMap, last |-> NoLast]
    /\ rm = 0 /\ mem = 0 /\ hist = 0 /\ ops = 0 /\ conc = 0 /\ vf = 0 /\ vh = 0
    /\ mt = 0

GetNodeRef(id) ==
    /\ sys' = [sys EXCEPT
                 !.p = Fresh(get_node_ref(Fresh(sys.p), new_db(id)).s),
                 !.last = NoLast]
    /\ UNCHANGED <<rm, mem, hist, ops, conc, vf, vh, mt>>

GetRelationshipRef(id) ==
    /\ sys' = [sys EXCEPT
                 !.p = Fresh(get_relationship_ref(Fresh(sys.p), new_db(id)).s),
                 !.last = NoLast]
    /\ UNCHANGED <<rm, mem, hist, ops, conc, vf, vh, mt>>

\* out_edges(v) / in_edges(v) on a vertex the proxy has loaded
StartEdges(v, inbound) ==
    /\ v \in DOMAIN sys.p.map_vertices
    /\ sys' = [sys EXCEPT
                 !.it = [active |-> TRUE, inbound |-> inbound, v |-> v,
                         current_edge_index |->
                             IF inbound THEN in_edges(sys.p, new_db(v)).v
                             ELSE out_edges(sys.p, new_db(v)).v,
                         seq |-> <<>>, calls |-> 0],
                 !.last = NoLast]
    /\ UNCHANGED <<rm, mem, hist, ops, conc, vf, vh, mt>>

\* the iterator after a next() that returned Some(item)
Advanced(it, r) ==
    [it EXCEPT !.current_edge_index = r.v.current_edge_index,
               !.seq = Append(@, r.v.item[1].store_id),
               !.calls = @ + r.s.calls]

\* next() returned Some
IterNext ==
    /\ sys.it.active
    /\ sys.it.current_edge_index # None
    /\ EdgesNext(Fresh(sys.p), sys.it.current_edge_index[1], sys.it.inbound).ok
    /\ sys' = [sys EXCEPT
                 !.p = Fresh(EdgesNext(Fresh(sys.p), sys.it.current_edge_index[1],
                                       sys.it.inbound).s),
                 !.it = Advanced(@, EdgesNext(Fresh(sys.p), sys.it.current_edge_index[1],
                                              sys.it.inbound)),
                 !.last = NoLast]
    /\ UNCHANGED <<rm, mem, hist, ops, conc, vf, vh, mt>>

\* next() returned None at the end of the chain: the iteration is over; the
\* first out_edges iteration of a vertex is kept in sys.done
IterEnd ==
    /\ sys.it.active
    /\ sys.it.current_edge_index = None
    /\ sys' = [sys EXCEPT
                 !.it = NoIter,
                 !.last = [ended |-> TRUE, v |-> sys.it.v, inbound |-> sys.it.inbound,
                           seq |-> sys.it.seq, calls |-> sys.it.calls,
                           again |-> ~sys.it.inbound /\ sys.it.v \in DOMAIN sys.done],
                 !.done = IF sys.it.inbound \/ sys.it.v \in DOMAIN @ THEN @
                          ELSE MapPut(@, sys.it.v, sys.it.seq)]
    /\ UNCHANGED <<rm, mem, hist, ops, conc, vf, vh, mt>>

ProxyNext ==
    \/ \E id \in AskedVertexIds : GetNodeRef(id)
    \/ \E id \in AskedEdgeIds : GetRelationshipRef(id)
    \/ \E v \in RepoVertexIds : \E inbound \in BOOLEAN : StartEdges(v, inbound)
    \/ IterNext
    \/ IterEnd

ProxySpec == ProxyInit /\ [][ProxyNext]_vars

\* the dense index the proxy holds for a store id
DenseOf(m, id) == m[id][1].mem_id

DenseStable(m, n) ==
    \A id \in DOMAIN m : id \in DOMAIN n /\ DenseOf(n, id) = DenseOf(m, id)

DenseInjective(m) ==
    \A x \in DOMAIN m : \A y \in DOMAIN m : DenseOf(m, x) = DenseOf(m, y) => x = y

DenseStep ==
    /\ DenseStable(sys.p.map_vertices, sys.p.map_vertices')
    /\ DenseStable(sys.p.map_edges, sys.p.map_edges')
    /\ DenseInjective(sys.p.map_vertices')
    /\ DenseInjective(sys.p.map_edges')

\* C11: whatever get_node_ref, get_relationship_ref and iteration steps are
\* taken, a store id (vertex or edge) keeps the dense index it was given
\* first, and two different store ids never hold the same dense index.
C11_DenseIndexStable == [][DenseStep]_vars

C11_Witness ==
    /\ DOMAIN sys.p.map_vertices = {1, 2}
    /\ DOMAIN sys.p.map_edges = RepoEdgeIds
    /\ Len(sys.p.nodes) > 2
    /\ Len(sys.p.relationships) > 3
    /\ DenseOf(sys.p.map_vertices, 2) = 0
    /\ DenseOf(sys.p.map_edges, 13) = 1

\* C12: an out_edges(v) iteration that ran to the end after an earlier one
\* of the same vertex did returns the same sequence of edge store ids, and
\* its next() calls make no repository call.
C12_SecondIterationCached ==
    (sys.last.ended /\ sys.last.again) =>
        /\ sys.last.seq = sys.done[sys.last.v]
        /\ sys.last.calls = 0

C12_Witness ==
    /\ sys.last.ended /\ sys.last.again
    /\ sys.last.v = 1
    /\ sys.last.seq = <<13, 11>>
    /\ sys.last.calls = 0



(***************************************************************************)
(* The record codec of orange-db-core (repository/index/node_store.rs).    *)
(* The sizes are those of config.rs, a file outside the modelled sources:   *)
(* a cell is its header byte, node_ptr, overflow_cell_ptr and KEY_SIZE      *)
(* payload bytes; a node record is a header byte, NB_CELL cells and the     *)
(* trailing pointer.  The widths of the u32 fields are fixed by the         *)
(* from_be_bytes calls of the code.                                         *)
(***************************************************************************)
CELL_HEADER_SIZE == 1
OVERFLOW_CELL_PTR_SIZE == 4
FREE_CELLS_COUNTER == 4
FREE_CELLS_PTR_SIZE == 4
CELL_SIZE == CELL_HEADER_SIZE + NODE_PTR_SIZE + OVERFLOW_CELL_PTR_SIZE + KEY_SIZE
BTREE_NODE_RECORD_SIZE == 1 + NB_CELL * CELL_SIZE + NODE_PTR_SIZE


\* dst[lo..hi].copy_from_slice(src): panics unless the lengths are equal
\* and the range lies in dst
copy_from_slice(dst, lo, hi, src) ==
    IF lo <= hi /\ hi <= Len(dst) /\ hi - lo = Len(src)
    THEN Ret(0, CopyInto(dst, lo, src))
    ELSE Panic(0)

\* &bytes[lo..hi]: panics when the range is not inside bytes
slice_of(bytes, lo, hi) ==
    IF lo <= hi /\ hi <= Len(bytes) THEN Ret(0, Slice(bytes, lo, hi)) ELSE Panic(0)

\* CellRecord::new
CellRecord_new == [header |-> 0, node_ptr |-> 0, overflow_cell_ptr |-> 0, key |-> ZeroKey]

\* CellRecord::to_bytes: header, node_ptr, overflow_cell_ptr, and then
\* node_ptr again into bytes[KEY_SIZE..]
CellRecord_to_bytes(c) ==
    Bind(copy_from_slice([ZeroBytes(CELL_SIZE) EXCEPT ![1] = c.header],
                         CELL_HEADER_SIZE, CELL_HEADER_SIZE + NODE_PTR_SIZE,
                         to_be_bytes(c.node_ptr, NODE_PTR_SIZE)),
         LAMBDA a :
            Bind(copy_from_slice(a.v, CELL_HEADER_SIZE + NODE_PTR_SIZE,
                                 CELL_HEADER_SIZE + NODE_PTR_SIZE + OVERFLOW_CELL_PTR_SIZE,
                                 to_be_bytes(c.overflow_cell_ptr, OVERFLOW_CELL_PTR_SIZE)),
                 LAMBDA b :
                    copy_from_slice(b.v, KEY_SIZE, CELL_SIZE,
                                    to_be_bytes(c.node_ptr, NODE_PTR_SIZE))))

\* CellRecord::from_bytes
CellRecord_from_bytes(bytes) ==
    Bind(slice_of(bytes, CELL_HEADER_SIZE, CELL_HEADER_SIZE + NODE_PTR_SIZE),
         LAMBDA p :
            Bind(slice_of(bytes, CELL_HEADER_SIZE + NODE_PTR_SIZE,
                          CELL_HEADER_SIZE + NODE_PTR_SIZE + OVERFLOW_CELL_PTR_SIZE),
                 LAMBDA o :
                    Bind(slice_of(bytes, CELL_HEADER_SIZE + NODE_PTR_SIZE + OVERFLOW_CELL_PTR_SIZE,
                                  CELL_HEADER_SIZE + NODE_PTR_SIZE + OVERFLOW_CELL_PTR_SIZE + KEY_SIZE),
                         LAMBDA k :
                            Ret(0, [header |-> bytes[1],
                                    node_ptr |-> from_be_bytes(p.v),
                                    overflow_cell_ptr |-> from_be_bytes(o.v),
                                    key |-> k.v]))))

\* BNodeRecord::new
\* The u64 ptr of a node record as its high and low 32-bit words
U64(hi, lo) == [hi |-> hi, lo |-> lo]

u64_to_be_bytes(p) == to_be_bytes(p.hi, 4) \o to_be_bytes(p.lo, 4)

u64_from_be_bytes(b) == U64(from_be_bytes(SubSeq(b, 1, 4)), from_be_bytes(SubSeq(b, 5, 8)))

BNodeRecord_new ==
    [header |-> 0, cells |-> [i \in 1..NB_CELL |-> CellRecord_new], ptr |-> U64(0, 0)]

\* BNodeRecord::to_bytes: the loop over the cells, from cell_id on
RECURSIVE NodeCellsToBytes(_, _, _)
NodeCellsToBytes(n, cell_id, bytes) ==
    IF cell_id = NB_CELL THEN Ret(0, bytes)
    ELSE Bind(CellRecord_to_bytes(n.cells[cell_id + 1]),
              LAMBDA c :
                 Bind(copy_from_slice(bytes, 1 + cell_id * CELL_SIZE,
                                      1 + (cell_id + 1) * CELL_SIZE, c.v),
                      LAMBDA b : NodeCellsToBytes(n, cell_id + 1, b.v)))

BNodeRecord_to_bytes(n) ==
    Bind(NodeCellsToBytes(n, 0, [ZeroBytes(BTREE_NODE_RECORD_SIZE) EXCEPT ![1] = n.header]),
         LAMBDA b :
            copy_from_slice(b.v, 1 + NB_CELL * CELL_SIZE, BTREE_NODE_RECORD_SIZE,
                            u64_to_be_bytes(n.ptr)))

\* BNodeRecord::from_bytes: the loop that reads nb_free_cells ids from index on
RECURSIVE ReadFreeCellIds(_, _, _, _)
ReadFreeCellIds(bytes, index, left, ids) ==
    IF left = 0 THEN Ret(0, [index |-> index, ids |-> ids])
    ELSE Bind(slice_of(bytes, index, index + FREE_CELLS_PTR_SIZE),
              LAMBDA b : ReadFreeCellIds(bytes, index + FREE_CELLS_PTR_SIZE, left - 1,
                                         Append(ids, from_be_bytes(b.v))))

\* BNodeRecord::from_bytes: the loop over free_cells_ids, from position i on
RECURSIVE ReadCellsAt(_, _, _, _, _)
ReadCellsAt(bytes, index, ids, i, cells) ==
    IF i > Len(ids) THEN Ret(0, cells)
    ELSE Bind(slice_of(bytes, index + ids[i] * CELL_SIZE, index + ids[i] * CELL_SIZE + CELL_SIZE),
              LAMBDA b :
                 Bind(CellRecord_from_bytes(b.v),
                      LAMBDA c :
                         IF ids[i] < NB_CELL
                         THEN ReadCellsAt(bytes, index, ids, i + 1,
                                          [cells EXCEPT ![ids[i] + 1] = c.v])
                         ELSE Panic(0)))

\* BNodeRecord::from_bytes: ptr and the free-cell counter are both read at
\* byte 1, the cells named by the ids that follow are decoded
BNodeRecord_from_bytes(bytes) ==
    Bind(ReadFreeCellIds(bytes, 1 + FREE_CELLS_COUNTER,
                         from_be_bytes(Slice(bytes, 1, 1 + FREE_CELLS_COUNTER)), <<>>),
         LAMBDA f :
            Bind(ReadCellsAt(bytes, f.v.index, f.v.ids, 1, BNodeRecord_new.cells),
                 LAMBDA cs :
                    Ret(0, [header |-> bytes[1], cells |-> cs.v,
                            ptr |-> u64_from_be_bytes(Slice(bytes, 1, 1 + NODE_PTR_SIZE))])))

(***************************************************************************)
(* The codec on bounded inputs: a record is encoded and the bytes decoded; *)
(* from_bytes also runs on byte arrays as a records manager returns them.   *)
(***************************************************************************)
KeyOf(b) == [i \in 1..KEY_SIZE |-> IF i = 1 THEN b ELSE IF i = KEY_SIZE THEN 122 ELSE 0]

CellRecords ==
    { [header |-> h, node_ptr |-> p, overflow_cell_ptr |-> o, key |-> k] :
        h \in {0, 64, 128, 192}, p \in {0, 7, 258, 16777473},
        o \in {0, 3, 65536}, k \in {ZeroKey, KeyOf(65), KeyOf(0)} }

SomeCell(p) == [header |-> 64, node_ptr |-> p, overflow_cell_ptr |-> 0, key |-> KeyOf(65)]

NodeRecords ==
    { [header |-> h, cells |-> [i \in 1..NB_CELL |-> IF i <= n THEN SomeCell(i) ELSE CellRecord_new],
       ptr |-> p] :
        h \in {0, 128}, n \in 0..NB_CELL, p \in {U64(0, 0), U64(0, 9)} }

\* a cell as the layout of the specification stores it
CellBytes(c) ==
    <<c.header>> \o to_be_bytes(c.node_ptr, NODE_PTR_SIZE)
        \o to_be_bytes(c.overflow_cell_ptr, OVERFLOW_CELL_PTR_SIZE) \o c.key

StoredCellBytes == {CellBytes(c) : c \in {CellRecord_new, SomeCell(7), SomeCell(258)}}

\* pages: all zero, and pages whose bytes 1..4 count one or two cell ids
StoredNodeBytes ==
    { [i \in 1..BTREE_NODE_RECORD_SIZE |->
          IF i = 1 THEN h ELSE IF i = 5 THEN n ELSE IF i = 13 /\ n = 2 THEN 1
          ELSE IF i = 1 + FREE_CELLS_COUNTER + n * FREE_CELLS_PTR_SIZE + 1 THEN c ELSE 0] :
        h \in {0, 128}, n \in 0..2, c \in {0, 64} }

NoRecord == [header |-> 0 - 1]

CodecInit ==
    /\ \/ \E c \in CellRecords :
             sys = [kind |-> "cell", stage |-> "record", rec |-> c, bytes |-> <<>>,
                    out |-> NoRecord]
       \/ \E n \in NodeRecords :
             sys = [kind |-> "node", stage |-> "record", rec |-> n, bytes |-> <<>>,
                    out |-> NoRecord]
       \/ \E b \in StoredCellBytes :
             sys = [kind |-> "cell", stage |-> "bytes", rec |-> NoRecord, bytes |-> b,
                    out |-> NoRecord]
       \/ \E b \in StoredNodeBytes :
             sys = [kind |-> "node", stage |-> "bytes", rec |-> NoRecord, bytes |-> b,
                    out |-> NoRecord]
    /\ rm = 0 /\ mem = 0 /\ hist = 0 /\ ops = 0 /\ conc = 0 /\ vf = 0 /\ vh = 0
    /\ mt = 0

\* the state after an encode
Encoded(r) ==
    IF r.ok THEN [sys EXCEPT !.stage = "bytes", !.bytes = r.v]
    ELSE [sys EXCEPT !.stage = "panic"]

\* the state after a decode
Decoded(r) ==
    IF r.ok THEN [sys EXCEPT !.stage = "decoded", !.out = r.v]
    ELSE [sys EXCEPT !.stage = "panic"]

CellToBytes ==
    /\ sys.kind = "cell" /\ sys.stage = "record"
    /\ sys' = Encoded(CellRecord_to_bytes(sys.rec))
    /\ UNCHANGED <<rm, mem, hist, ops, conc, vf, vh, mt>>

CellFromBytes ==
    /\ sys.kind = "cell" /\ sys.stage = "bytes"
    /\ sys' = Decoded(CellRecord_from_bytes(sys.bytes))
    /\ UNCHANGED <<rm, mem, hist, ops, conc, vf, vh, mt>>

NodeToBytes ==
    /\ sys.kind = "node" /\ sys.stage = "record"
    /\ sys' = Encoded(BNodeRecord_to_bytes(sys.rec))
    /\ UNCHANGED <<rm, mem, hist, ops, conc, vf, vh, mt>>

NodeFromBytes ==
    /\ sys.kind = "node" /\ sys.stage = "bytes"
    /\ sys' = Decoded(BNodeRecord_from_bytes(sys.bytes))
    /\ UNCHANGED <<rm, mem, hist, ops, conc, vf, vh, mt>>

CodecNext == CellToBytes \/ CellFromBytes \/ NodeToBytes \/ NodeFromBytes

CodecSpec == CodecInit /\ [][CodecNext]_vars

\* C13: a CellRecord or BNodeRecord that is encoded with to_bytes and
\* decoded with from_bytes comes back equal to itself: the encode and the
\* decode complete and every field of the record survives.
C13_CodecRoundTrip ==
    (sys.rec # NoRecord /\ sys.stage # "record") =>
        /\ sys.stage # "panic"
        /\ sys.stage = "decoded" => sys.out = sys.rec


(***************************************************************************)
(* The free-cell chain of the pool (store/pool.rs) under calls of           *)
(* insert_cell_in_free_slot and append_node_record_to_free_list.  No code   *)
(* of the store calls append_node_record_to_free_list; its caller hands in  *)
(* the id of a storage node and that node's record, which the call links    *)
(* to the old head.  The record is the one the pool keeps for the node      *)
(* (NodeRecordPool::records is public) and save_all_node_records writes.    *)
(***************************************************************************)
MaxFreeOps == 7

get_first_free_list_node_ptr(s) == s.rm.free

\* the value is the record of the node after the call
append_node_record_to_free_list(s, node_record_id, node_record) ==
    Ret(set_first_free_list_node_ptr(s, node_record_id),
        [node_record EXCEPT !.next_free = get_first_free_list_node_ptr(s)])

\* the record of a node as the pool sees it
RecordView(s, id) == IF id \in PoolIds(s) THEN s.pool[id] ELSE s.rm.recs[id]

\* the operation's effects are not tracked here
Settled(s) == [s EXCEPT !.eff = <<>>]

\* the storage nodes met from id on along next_free_cells_node_ptr
RECURSIVE FreeChainNodes(_, _, _)
FreeChainNodes(s, id, seen) ==
    IF id = 0 \/ id \in seen \/ id \notin 1..Len(s.rm.recs) THEN seen
    ELSE FreeChainNodes(s, RecordView(s, id).next_free, seen \cup {id})

\* sys.loc is the location the last insert_cell_in_free_slot returned,
\* sys.cell the cell it was given, sys.was_active whether the slot held an
\* active cell before the call, sys.locs the locations returned for active
\* cells since the pool was made, sys.fresh whether every node appended was
\* outside the chain when it was appended
FreeInit ==
    /\ sys = [s |-> OpState(EmptyRM, NoFailure), n |-> 0, op |-> "new",
              rec |-> NewNodeRecord, loc |-> <<0, 0>>, cell |-> NewCellRecord,
              was_active |-> FALSE, locs |-> <<>>, fresh |-> TRUE]
    /\ rm = 0 /\ mem = 0 /\ hist = 0 /\ ops = 0 /\ conc = 0 /\ vf = 0 /\ vh = 0
    /\ mt = 0

\* the slot at loc holds an active cell; a record that does not exist has none
SlotActive(s, loc) ==
    loc[1] \in 1..Len(s.rm.recs) /\ CellAt(RecordView(s, loc[1]), loc[2]).active

\* BTreeNodeStore::create of a leaf node in the new store: the store then
\* holds a tree node and its storage node
CreateLeaf ==
    /\ sys.op = "new"
    /\ sys' = [sys EXCEPT
                 !.s = OpState(create(EmptyRM, NewNode(None, None, TRUE, TRUE, LeafCells),
                                      NoFailure, <<>>).s.rm, NoFailure),
                 !.op = "create"]
    /\ UNCHANGED <<rm, mem, hist, ops, conc, vf, vh, mt>>

\* insert_cell_in_free_slot returned Some
InsertInFreeSlot(cell_record) ==
    /\ sys.n < MaxFreeOps
    /\ insert_cell_in_free_slot(sys.s, cell_record).ok
    /\ sys' = [sys EXCEPT !.s = Settled(insert_cell_in_free_slot(sys.s, cell_record).s),
                          !.n = @ + 1, !.op = "insert",
                          !.loc = insert_cell_in_free_slot(sys.s, cell_record).v,
                          !.cell = cell_record,
                          !.was_active =
                              SlotActive(sys.s, insert_cell_in_free_slot(sys.s, cell_record).v),
                          !.locs = IF cell_record.active
                                   THEN Append(@, insert_cell_in_free_slot(sys.s, cell_record).v)
                                   ELSE @]
    /\ UNCHANGED <<rm, mem, hist, ops, conc, vf, vh, mt>>

\* append_node_record_to_free_list(id, &mut record) with the pool's record
\* of a storage node, which holds the link after the call
AppendToFreeList(id) ==
    /\ sys.n < MaxFreeOps
    /\ id \in 1..Len(sys.s.rm.recs)
    /\ RecordView(sys.s, id).overflow
    /\ sys' = [sys EXCEPT
                 !.s = Settled(PoolPut(append_node_record_to_free_list(
                                           load_node_record(sys.s, id).s, id,
                                           load_node_record(sys.s, id).v).s,
                                       id,
                                       append_node_record_to_free_list(
                                           load_node_record(sys.s, id).s, id,
                                           load_node_record(sys.s, id).v).v)),
                 !.rec = append_node_record_to_free_list(
                             load_node_record(sys.s, id).s, id,
                             load_node_record(sys.s, id).v).v,
                 !.fresh = @ /\ id \notin FreeChainNodes(sys.s, sys.s.rm.free, {}),
                 !.n = @ + 1, !.op = "append"]
    /\ UNCHANGED <<rm, mem, hist, ops, conc, vf, vh, mt>>

\* the operation ends: save_all_node_records, and the next one has a new pool
Flush ==
    /\ PoolIds(sys.s) # {}
    /\ sys' = [sys EXCEPT
                 !.s = OpState(save_all_node_records(sys.s, PoolOrder(sys.s, <<>>)).s.rm,
                               NoFailure),
                 !.op = "save", !.locs = <<>>]
    /\ UNCHANGED <<rm, mem, hist, ops, conc, vf, vh, mt>>

FreeNext ==
    \/ \E cell_record \in {ActiveCellRecord, NewCellRecord} : InsertInFreeSlot(cell_record)
    \/ \E id \in 1..3 : AppendToFreeList(id)
    \/ Flush
    \/ CreateLeaf

FreeSpec == FreeInit /\ [][FreeNext]_vars

\* following next_free_cells_node_ptr from id reaches 0 through the
\* records of the storage nodes, none of them in seen or met twice
RECURSIVE ChainEnds(_, _, _)
ChainEnds(s, id, seen) ==
    IF id = 0 THEN TRUE
    ELSE IF id \in seen \/ id \notin 1..Len(s.rm.recs) THEN FALSE
    ELSE ChainEnds(s, RecordView(s, id).next_free, seen \cup {id})

\* C14: after any sequence of insert_cell_in_free_slot and
\* append_node_record_to_free_list calls, following next_free_cells_node_ptr
\* from the header's free-list head reaches 0 without meeting a storage node
\* twice.
C14_FreeChainWellFormed == ChainEnds(sys.s, sys.s.rm.free, {})

\* the storage nodes appended so far are pairwise distinct and none of them
\* was in the chain when it was appended
AppendedOnce == sys.fresh

\* what does hold: the chain is well formed as long as no call appends a
\* node that is in the chain already
FreshAppendsKeepChain == AppendedOnce => ChainEnds(sys.s, sys.s.rm.free, {})


NoRepeat(q) == \A i \in 1..Len(q) : \A j \in 1..Len(q) : i < j => q[i] # q[j]

\* C22: insert_cell_in_free_slot with an active cell returns a location in
\* an overflow-storage node whose slot was inactive before the call and
\* holds the cell after it, and the locations returned within one pool are
\* pairwise distinct.
C22_FreeSlotInsert ==
    (sys.op = "insert" /\ sys.cell.active) =>
        /\ RecordView(sys.s, sys.loc[1]).overflow
        /\ ~sys.was_active
        /\ CellAt(RecordView(sys.s, sys.loc[1]), sys.loc[2]) = sys.cell
        /\ NoRepeat(sys.locs)

\* five active cells inserted in one pool after the leaf was created: the
\* storage node of the leaf is filled and the last cell is in a new one
C22_Witness ==
    /\ sys.op = "insert" /\ sys.cell.active
    /\ Len(sys.locs) = 5
    /\ sys.locs[1][1] # sys.loc[1]
    /\ \E id \in 1..Len(sys.s.rm.recs) : ~RecordView(sys.s, id).overflow


(***************************************************************************)
(* Overflow chains of the node store as the records manager holds them.     *)
(***************************************************************************)
\* the locations of the active cells of the tree nodes
RootCellLocs(r) ==
    { <<id, c>> \in (1..Len(r.recs)) \X (0..(NB_CELL - 1)) :
        ~r.recs[id].overflow /\ CellAt(r.recs[id], c).active }

\* the locations from loc on along get_next_cell_location, while has_overflow
RECURSIVE ChainLocs(_, _, _)
ChainLocs(r, loc, steps) ==
    IF steps = 0 \/ loc[1] \notin 1..Len(r.recs) \/ loc[2] >= NB_CELL THEN <<>>
    ELSE IF CellAt(r.recs[loc[1]], loc[2]).has_overflow
    THEN <<loc>> \o ChainLocs(r, get_next_cell_location(CellAt(r.recs[loc[1]], loc[2])),
                             steps - 1)
    ELSE <<loc>>

Disjoint(p, q) == \A i \in 1..Len(p) : \A j \in 1..Len(q) : p[i] # q[j]

\* C15: after a sequence of create and save operations that succeeded, no
\* overflow chain that starts at an active root cell meets a location
\* twice, and no location lies on the chains of two different root cells.
C15_OverflowChainsApart ==
    hist.ok =>
        \A a \in RootCellLocs(rm) : \A b \in RootCellLocs(rm) :
            /\ NoRepeat(ChainLocs(rm, a, MaxChainSteps))
            /\ a # b => Disjoint(ChainLocs(rm, a, MaxChainSteps),
                                 ChainLocs(rm, b, MaxChainSteps))


(***************************************************************************)
(* BTreeIndex of orange-db-core (repository/index/b_tree.rs) over the       *)
(* BTreeNodeStore of node_store.rs.  The records manager is external: a     *)
(* sequence of pages, record id 0 first; load fails on an id it does not    *)
(* hold.                                                                    *)
(***************************************************************************)
HAS_OVERFLOW_FLAG == 128
IS_ACTIVE == 64
IS_LEAF_FLAG == 128

\* header & flag, for a flag of one bit
BitAnd(header, flag) == IF (header \div flag) % 2 = 1 THEN flag ELSE 0

\* CellRecord::has_overflow, CellRecord::is_active, BNodeRecord::is_leaf:
\* the masked header is compared with 1
CellRecord_has_overflow(c) == BitAnd(c.header, HAS_OVERFLOW_FLAG) = 1

CellRecord_is_active(c) == BitAnd(c.header, IS_ACTIVE) = 1

BNodeRecord_is_leaf(n) == BitAnd(n.header, IS_LEAF_FLAG) = 1

\* RecordsManager::load(id, &mut data).ok()?
RecordsLoad(pages, id) ==
    IF id + 1 \in 1..Len(pages) THEN Ret(0, pages[id + 1]) ELSE Fail(0)

\* append_key of node_store.rs: the bytes go to a local vector, vkey is left
\* as it was
odb_append_key(vkey, key_buf) == vkey

\* load_overflow_cells: the loop; the value is curr_node_id
RECURSIVE LoadOverflowCellsLoop(_, _, _, _, _, _, _)
LoadOverflowCellsLoop(pages, curr_node_id, curr_overflow_cell_id, has_overflow, load_node, curr_node, steps) ==
    IF ~has_overflow THEN Ret(0, curr_node_id)
    ELSE IF steps = 0 THEN Hang(0)
    ELSE Bind(IF load_node
              THEN Bind(RecordsLoad(pages, curr_node_id),
                        LAMBDA d : BNodeRecord_from_bytes(d.v))
              ELSE Ret(0, curr_node),
              LAMBDA n :
                 IF curr_overflow_cell_id >= NB_CELL THEN Panic(0)
                 ELSE LoadOverflowCellsLoop(
                          pages,
                          n.v.cells[curr_overflow_cell_id + 1].node_ptr,
                          n.v.cells[curr_overflow_cell_id + 1].overflow_cell_ptr,
                          CellRecord_has_overflow(n.v.cells[curr_overflow_cell_id + 1]),
                          n.v.cells[curr_overflow_cell_id + 1].node_ptr
                              # n.v.cells[curr_overflow_cell_id + 1].node_ptr,
                          n.v, steps - 1))

odb_load_overflow_cells(pages, cell_record) ==
    LoadOverflowCellsLoop(pages, cell_record.node_ptr, cell_record.overflow_cell_ptr,
                          CellRecord_has_overflow(cell_record), TRUE, BNodeRecord_new,
                          MaxChainSteps)

\* retrieve_cell of node_store.rs: Cell{key, node_ptr}
odb_retrieve_cell(pages, cell_record) ==
    Bind(odb_load_overflow_cells(pages, cell_record),
         LAMBDA id : Ret(0, [key |-> odb_append_key(<<>>, cell_record.key),
                             node_ptr |-> id.v]))

\* retrieve_node of node_store.rs: the loop over the record's cells
RECURSIVE OdbRetrieveCells(_, _, _, _)
OdbRetrieveCells(pages, node, cell_record_id, cells) ==
    IF cell_record_id = NB_CELL THEN Ret(0, cells)
    ELSE IF ~CellRecord_is_active(node.cells[cell_record_id + 1])
    THEN OdbRetrieveCells(pages, node, cell_record_id + 1, cells)
    ELSE Bind(odb_retrieve_cell(pages, node.cells[cell_record_id + 1]),
              LAMBDA c : OdbRetrieveCells(pages, node, cell_record_id + 1,
                                          Append(cells, c.v)))

odb_retrieve_node(pages, nid) ==
    Bind(RecordsLoad(pages, nid),
         LAMBDA d :
            Bind(BNodeRecord_from_bytes(d.v),
                 LAMBDA n :
                    Bind(OdbRetrieveCells(pages, n.v, 0, <<>>),
                         LAMBDA cs : Ret(0, [id |-> nid, node_ptr |-> n.v.ptr,
                                             cells |-> cs.v,
                                             is_leaf |-> BNodeRecord_is_leaf(n.v)]))))

\* String order: byte-wise, a proper prefix first
RECURSIVE StrLess(_, _)
StrLess(a, b) ==
    IF b = <<>> THEN FALSE
    ELSE IF a = <<>> THEN TRUE
    ELSE IF Head(a) # Head(b) THEN Head(a) < Head(b)
    ELSE StrLess(Tail(a), Tail(b))

\* The bisection of Vec::binary_search (slice::binary_search_by of the
\* standard library): the probe at base + size / 2 moves base unless the
\* key there is greater than the value; an equal key does not end the loop.
RECURSIVE BinarySearchLoop(_, _, _, _)
BinarySearchLoop(keys, value, base, size) ==
    IF size <= 1 THEN base
    ELSE BinarySearchLoop(keys, value,
             IF StrLess(value, keys[base + size \div 2 + 1]) THEN base
             ELSE base + size \div 2,
             size - size \div 2)

\* what the bisection ended at: Ok(base) on the value, else Err(base) or
\* Err(base + 1)
BinarySearchAt(keys, value, base) ==
    IF keys[base + 1] = value THEN [found |-> TRUE, index |-> base]
    ELSE [found |-> FALSE,
          index |-> IF StrLess(keys[base + 1], value) THEN base + 1 ELSE base]

\* keys.binary_search(&value): Ok(index of a key equal to the value) or
\* Err(index the bisection ended at); the keys are taken as they are, sorted
\* or not
binary_search(keys, value) ==
    IF Len(keys) = 0 THEN [found |-> FALSE, index |-> 0]
    ELSE BinarySearchAt(keys, value, BinarySearchLoop(keys, value, 0, Len(keys)))

\* BTreeNode::get_keys of node_store.rs
odb_get_keys(node) == [i \in 1..Len(node.cells) |-> node.cells[i].key]

\* BTreeIndex::tree_search; depth bounds the descent
RECURSIVE tree_search(_, _, _, _)
tree_search(pages, value, node, depth) ==
    IF binary_search(odb_get_keys(node), value).index >= Len(node.cells)
       /\ (binary_search(odb_get_keys(node), value).found \/ ~node.is_leaf)
    THEN Panic(0)
    ELSE IF node.is_leaf
    THEN IF binary_search(odb_get_keys(node), value).found
         THEN Ret(0, node.cells[binary_search(odb_get_keys(node), value).index + 1].node_ptr)
         ELSE Fail(0)
    ELSE IF depth >= MaxChainSteps THEN Hang(0)
    ELSE Bind(odb_retrieve_node(
                  pages,
                  node.cells[binary_search(odb_get_keys(node), value).index + 1].node_ptr),
              LAMBDA child : tree_search(pages, value, child.v, depth + 1))

\* BTreeIndex::search
BTreeIndex_search(pages, value) ==
    Bind(odb_retrieve_node(pages, 0), LAMBDA node : tree_search(pages, value, node.v, 0))

\* BTreeIndex::insert with nothing done
BTreeIndex_insert(pages, value, data_ptr) == pages

(***************************************************************************)
(* The index as a state machine: insert and search on a new index file or   *)
(* on a file that already holds pages.  sys.inserted are the (key, id)      *)
(* pairs inserted so far, sys.found the result of the last search.          *)
(***************************************************************************)
IndexKeys == {65, 77, 81}

IndexFiles == {<<>>} \cup {<<b>> : b \in StoredNodeBytes}

NoSearch == [ok |-> FALSE, s |-> 0, v |-> "no search"]

IndexInit ==
    /\ \E f \in IndexFiles :
          sys = [pages |-> f, inserted |-> {}, key |-> 0, found |-> NoSearch]
    /\ rm = 0 /\ mem = 0 /\ hist = 0 /\ ops = 0 /\ conc = 0 /\ vf = 0 /\ vh = 0
    /\ mt = 0

\* insert(key, vertex_id): the key "A".."Z" given by its character code
IndexInsert(value, data_ptr) ==
    /\ sys' = [sys EXCEPT !.pages = BTreeIndex_insert(@, value, data_ptr),
                          !.inserted = @ \cup {<<value, data_ptr>>},
                          !.key = 0, !.found = NoSearch]
    /\ UNCHANGED <<rm, mem, hist, ops, conc, vf, vh, mt>>

\* search of the one-character key
IndexSearch(value) ==
    /\ sys' = [sys EXCEPT !.key = value,
                          !.found = BTreeIndex_search(sys.pages, <<value>>)]
    /\ UNCHANGED <<rm, mem, hist, ops, conc, vf, vh, mt>>

IndexNext ==
    \/ \E value \in IndexKeys : IndexInsert(value, value)
    \/ \E value \in IndexKeys : IndexSearch(value)

IndexSpec == IndexInit /\ [][IndexNext]_vars

\* C16: a search of a key that was inserted with a vertex id returns that
\* vertex id: after the inserts of "A".."Z" with their character codes,
\* search("M") returns 77 and search("Q") returns 81.
C16_SearchFindsInserted ==
    (sys.key # 0 /\ <<sys.key, sys.key>> \in sys.inserted) =>
        (sys.found.ok /\ sys.found.v = sys.key)


(***************************************************************************)
(* handle_graph_request of one-graph-tx-handler (lib.rs).  Threads serve    *)
(* requests; a request carries its transaction context (the session and the *)
(* commit flag) or none.  The transaction handler is a re-entrant mutex     *)
(* around the current session and the session lock; the request handler is  *)
(* a readers-writer lock.  sys.pc is the position of each thread in         *)
(* handle_graph_request, sys.depth the number of its re-entries; sys.acq    *)
(* and sys.rel count the acquire_session_lock and release_session_lock      *)
(* calls made for the transaction of a session since it was opened.         *)
(***************************************************************************)
MaxThreads == 3

Threads == 1..MaxThreads

NoTxContext == 0

\* the requests of thread t: without a context (read-only or writing), or
\* of the session of the thread (with or without commit)
RequestsOf(t) ==
    { [session |-> NoTxContext, commit |-> FALSE, write |-> w] : w \in BOOLEAN }
    \cup { [session |-> t, commit |-> c, write |-> TRUE] : c \in BOOLEAN }

NoRequest == [session |-> NoTxContext, commit |-> FALSE, write |-> FALSE]

\* needs_write_lock(patterns)
needs_write_lock(request) == request.write

\* TxHandler::get_session_status: the status, and the current session after
\* the call
get_session_status(tx, tx_context) ==
    IF tx_context.session = NoTxContext THEN [status |-> "NoTx", cur |-> tx.cur]
    ELSE IF tx.cur = 0 THEN [status |-> "OpenNewTx", cur |-> tx_context.session]
    ELSE IF tx.cur # tx_context.session THEN [status |-> "WaitForCurrentTx", cur |-> tx.cur]
    ELSE IF tx_context.commit THEN [status |-> "CommitCurrentTx", cur |-> tx.cur]
    ELSE [status |-> "ContinueCurrentTx", cur |-> tx.cur]

\* the arm of the match for a status
ArmOf(status, request) ==
    CASE status = "OpenNewTx" -> "open_acquire"
      [] status = "ContinueCurrentTx" -> "tx_write"
      [] status = "CommitCurrentTx" -> "commit_write"
      [] status = "WaitForCurrentTx" -> "wait_acquire"
      [] OTHER -> IF needs_write_lock(request) THEN "notx_write" ELSE "notx_read"

\* the position after the write guard of a statement is dropped
AfterWrite(pc) ==
    CASE pc = "in_open_graph_tx" -> "tx_write"
      [] pc = "in_commit_tx" -> "commit_release"
      [] OTHER -> "return"

\* the call made under the write guard taken at a position
UnderWrite(pc) ==
    CASE pc = "open_write" -> "in_open_graph_tx"
      [] pc = "tx_write" -> "in_handle_graph_request_tx"
      [] pc = "commit_write" -> "in_commit_tx"
      [] OTHER -> "in_write_handle_graph_request"

TxInit ==
    /\ sys = [pc |-> [t \in Threads |-> "idle"],
              req |-> [t \in Threads |-> NoRequest],
              depth |-> [t \in Threads |-> 0],
              tx |-> [owner |-> 0, count |-> 0, cur |-> 0, session_lock |-> FALSE],
              rw |-> [writer |-> 0, readers |-> {}],
              acq |-> [t \in Threads |-> 0],
              rel |-> [t \in Threads |-> 0]]
    /\ rm = 0 /\ mem = 0 /\ hist = 0 /\ ops = 0 /\ conc = 0 /\ vf = 0 /\ vh = 0
    /\ mt = 0

\* a thread receives a request and calls handle_graph_request
Request(t, request) ==
    /\ sys.pc[t] = "idle"
    /\ sys' = [sys EXCEPT !.pc[t] = "lock", !.req[t] = request, !.depth[t] = 0]
    /\ UNCHANGED <<rm, mem, hist, ops, conc, vf, vh, mt>>

\* let tx_lock = tx_handler.lock(); get_session_status; match tx_status
LockTx(t) ==
    /\ sys.pc[t] = "lock"
    /\ sys.tx.owner \in {0, t}
    /\ sys' = [sys EXCEPT
                 !.tx.owner = t, !.tx.count = @ + 1,
                 !.tx.cur = get_session_status(sys.tx, sys.req[t]).cur,
                 !.pc[t] = ArmOf(get_session_status(sys.tx, sys.req[t]).status, sys.req[t])]
    /\ UNCHANGED <<rm, mem, hist, ops, conc, vf, vh, mt>>

\* tx_lock.borrow_mut().acquire_session_lock(), of OpenNewTx and of
\* WaitForCurrentTx; after the latter handle_graph_request is entered again
acquire_session_lock(t) ==
    /\ sys.pc[t] \in {"open_acquire", "wait_acquire"}
    /\ ~sys.tx.session_lock
    /\ sys' = [sys EXCEPT
                 !.tx.session_lock = TRUE,
                 !.acq[t] = @ + 1,
                 !.pc[t] = IF sys.pc[t] = "open_acquire" THEN "open_write" ELSE "lock",
                 !.depth[t] = IF sys.pc[t] = "open_acquire" THEN @ ELSE @ + 1]
    /\ UNCHANGED <<rm, mem, hist, ops, conc, vf, vh, mt>>

\* graph_request_handler.write().unwrap() and the call under the guard
AcquireWrite(t) ==
    /\ sys.pc[t] \in {"open_write", "tx_write", "commit_write", "notx_write"}
    /\ sys.rw.writer = 0 /\ sys.rw.readers = {}
    /\ sys' = [sys EXCEPT !.rw.writer = t, !.pc[t] = UnderWrite(sys.pc[t])]
    /\ UNCHANGED <<rm, mem, hist, ops, conc, vf, vh, mt>>

\* the call returns and the write guard is dropped at the end of its statement
ReleaseWrite(t) ==
    /\ sys.pc[t] \in {"in_open_graph_tx", "in_handle_graph_request_tx", "in_commit_tx", "in_write_handle_graph_request"}
    /\ sys' = [sys EXCEPT !.rw.writer = 0, !.pc[t] = AfterWrite(sys.pc[t])]
    /\ UNCHANGED <<rm, mem, hist, ops, conc, vf, vh, mt>>

\* graph_request_handler.read().unwrap().handle_graph_request(patterns)
AcquireRead(t) ==
    /\ sys.pc[t] = "notx_read"
    /\ sys.rw.writer = 0
    /\ sys' = [sys EXCEPT !.rw.readers = @ \cup {t},
                          !.pc[t] = "in_read_handle_graph_request"]
    /\ UNCHANGED <<rm, mem, hist, ops, conc, vf, vh, mt>>

ReleaseRead(t) ==
    /\ sys.pc[t] = "in_read_handle_graph_request"
    /\ sys' = [sys EXCEPT !.rw.readers = @ \ {t}, !.pc[t] = "return"]
    /\ UNCHANGED <<rm, mem, hist, ops, conc, vf, vh, mt>>

\* tx_lock.borrow_mut().release_session_lock() after commit_tx
release_session_lock(t) ==
    /\ sys.pc[t] = "commit_release"
    /\ sys' = [sys EXCEPT !.tx.session_lock = FALSE, !.tx.cur = 0,
                          !.rel[t] = @ + 1, !.pc[t] = "return"]
    /\ UNCHANGED <<rm, mem, hist, ops, conc, vf, vh, mt>>

\* handle_graph_request returns: tx_lock is dropped, in every frame
Return(t) ==
    /\ sys.pc[t] = "return"
    /\ sys' = [sys EXCEPT !.tx.owner = 0, !.tx.count = 0, !.pc[t] = "idle",
                          !.req[t] = NoRequest, !.depth[t] = 0,
                          !.acq[t] = IF sys.rel[t] > 0 THEN 0 ELSE @,
                          !.rel[t] = 0]
    /\ UNCHANGED <<rm, mem, hist, ops, conc, vf, vh, mt>>

TxNext ==
    \/ \E t \in Threads : \E request \in RequestsOf(t) : Request(t, request)
    \/ \E t \in Threads : LockTx(t)
    \/ \E t \in Threads : acquire_session_lock(t)
    \/ \E t \in Threads : AcquireWrite(t)
    \/ \E t \in Threads : ReleaseWrite(t)
    \/ \E t \in Threads : AcquireRead(t)
    \/ \E t \in Threads : ReleaseRead(t)
    \/ \E t \in Threads : release_session_lock(t)
    \/ \E t \in Threads : Return(t)

TxSpec == TxInit /\ [][TxNext]_vars

\* thread t is inside the request handler's lock
HoldsHandlerLock(t) == sys.rw.writer = t \/ t \in sys.rw.readers

\* session s has opened a transaction and is between two of its requests
BetweenRequests(s) == sys.tx.cur = s /\ sys.tx.session_lock /\ sys.pc[s] = "idle"

\* C17: from its first request (OpenNewTx) until its commit request returns,
\* the session of a write transaction holds the request handler's write
\* lock: between two requests of the transaction the lock is held by the
\* session and no other thread holds the read lock or the write lock.
C17_WriteLockHeldAcrossTx ==
    \A s \in Threads :
        BetweenRequests(s) =>
            /\ sys.rw.writer = s
            /\ \A t \in Threads \ {s} : ~HoldsHandlerLock(t)

\* thread t serves a read-only request without a transaction context
ReadOnlyNoTx(t) == sys.pc[t] # "idle" /\ sys.req[t].session = NoTxContext /\ ~sys.req[t].write

\* C18: two read-only requests without a transaction context, of different
\* threads, do not wait for one another: when one of them has been called
\* and the other has not yet returned, the first is not kept from going on
\* by a lock the other holds.
C18_ReadersDoNotWait ==
    \A t, u \in Threads :
        (t # u /\ ReadOnlyNoTx(t) /\ ReadOnlyNoTx(u) /\ sys.pc[t] = "lock") =>
            sys.tx.owner # u

\* C19: a request that found WaitForCurrentTx does not hold the lock of the
\* transaction handler while it waits for the session lock, and it has
\* re-entered handle_graph_request a bounded number of times, so that the
\* owner of the transaction can commit and the request returns.
C19_WaiterYields ==
    \A t \in Threads :
        sys.pc[t] = "wait_acquire" => (sys.tx.owner # t /\ sys.depth[t] <= 1)


(***************************************************************************)
(* The in-memory Graph of orange-db-kernel (graph/mod.rs): vertices and     *)
(* edges in vectors, indices from 0, the edges of a vertex chained through  *)
(* next_outbound_edge and next_inbound_edge.  sys.g is the graph, sys.log   *)
(* the (source, target) pairs of the add_edge calls in their order,         *)
(* sys.last the result of the last successors or ancestors collected.       *)
(***************************************************************************)
MaxVertices == 3
MaxEdges == 3

\* Graph::new
Graph_new == [nodes |-> <<>>, edges |-> <<>>]

\* Graph::add_vertex: the graph after the call and the index returned
Graph_add_vertex(g) ==
    [g |-> [g EXCEPT !.nodes = Append(@, [first_outbound_edge |-> None,
                                          first_inbound_edge |-> None])],
     index |-> Len(g.nodes)]

\* add_edge that starts a new chain at the edge
Graph_add_edge_unchained(g, source, target) ==
    [g |-> [nodes |-> [[g.nodes EXCEPT ![source + 1].first_outbound_edge = Some(Len(g.edges))]
                          EXCEPT ![target + 1].first_inbound_edge = Some(Len(g.edges))],
            edges |-> Append(g.edges,
                             [source |-> source, target |-> target,
                              next_inbound_edge |-> None,
                              next_outbound_edge |-> None])],
     index |-> Len(g.edges)]

\* Graph::add_edge: the graph after the call and the index returned
Graph_add_edge(g, source, target) ==
    [g |-> [nodes |-> [[g.nodes EXCEPT ![source + 1].first_outbound_edge = Some(Len(g.edges))]
                          EXCEPT ![target + 1].first_inbound_edge = Some(Len(g.edges))],
            edges |-> Append(g.edges,
                             [source |-> source, target |-> target,
                              next_inbound_edge |-> g.nodes[target + 1].first_inbound_edge,
                              next_outbound_edge |-> g.nodes[source + 1].first_outbound_edge])],
     index |-> Len(g.edges)]

\* Graph::successors and Graph::ancestors: current_edge_index of the iterator
Graph_successors(g, source) == g.nodes[source + 1].first_outbound_edge

Graph_ancestors(g, target) == g.nodes[target + 1].first_inbound_edge

\* Successors::next and Ancestors::next: the item and the iterator after
\* the call
Successors_next(g, current_edge_index) ==
    IF current_edge_index = None THEN [item |-> None, current_edge_index |-> None]
    ELSE [item |-> Some(g.edges[current_edge_index[1] + 1].target),
          current_edge_index |-> g.edges[current_edge_index[1] + 1].next_outbound_edge]

Ancestors_next(g, current_edge_index) ==
    IF current_edge_index = None THEN [item |-> None, current_edge_index |-> None]
    ELSE [item |-> Some(g.edges[current_edge_index[1] + 1].source),
          current_edge_index |-> g.edges[current_edge_index[1] + 1].next_inbound_edge]

\* collect::<Vec<NodeIndex>>(): next until None; an iteration longer than
\* the number of edges does not end
RECURSIVE CollectNodes(_, _, _, _)
CollectNodes(g, current_edge_index, inbound, out) ==
    IF current_edge_index = None THEN Ret(0, out)
    ELSE IF Len(out) > Len(g.edges) THEN Hang(0)
    ELSE IF inbound
    THEN CollectNodes(g, Ancestors_next(g, current_edge_index).current_edge_index, inbound,
                      Append(out, Ancestors_next(g, current_edge_index).item[1]))
    ELSE CollectNodes(g, Successors_next(g, current_edge_index).current_edge_index, inbound,
                      Append(out, Successors_next(g, current_edge_index).item[1]))

NoCollected == [kind |-> "none", v |-> 0, r |-> Fail(0)]

KernelInit ==
    /\ sys = [g |-> Graph_new, log |-> <<>>, last |-> NoCollected]
    /\ rm = 0 /\ mem = 0 /\ hist = 0 /\ ops = 0 /\ conc = 0 /\ vf = 0 /\ vh = 0
    /\ mt = 0

AddVertex ==
    /\ Len(sys.g.nodes) < MaxVertices
    /\ sys' = [sys EXCEPT !.g = Graph_add_vertex(sys.g).g, !.last = NoCollected]
    /\ UNCHANGED <<rm, mem, hist, ops, conc, vf, vh, mt>>

\* add_edge between vertices of the graph
AddEdge(source, target) ==
    /\ Len(sys.g.edges) < MaxEdges
    /\ source < Len(sys.g.nodes) /\ target < Len(sys.g.nodes)
    /\ sys' = [sys EXCEPT !.g = Graph_add_edge(sys.g, source, target).g,
                          !.log = Append(@, <<source, target>>),
                          !.last = NoCollected]
    /\ UNCHANGED <<rm, mem, hist, ops, conc, vf, vh, mt>>

CollectSuccessors(v) ==
    /\ v < Len(sys.g.nodes)
    /\ sys' = [sys EXCEPT !.last = [kind |-> "successors", v |-> v,
                                    r |-> CollectNodes(sys.g, Graph_successors(sys.g, v),
                                                       FALSE, <<>>)]]
    /\ UNCHANGED <<rm, mem, hist, ops, conc, vf, vh, mt>>

CollectAncestors(v) ==
    /\ v < Len(sys.g.nodes)
    /\ sys' = [sys EXCEPT !.last = [kind |-> "ancestors", v |-> v,
                                    r |-> CollectNodes(sys.g, Graph_ancestors(sys.g, v),
                                                       TRUE, <<>>)]]
    /\ UNCHANGED <<rm, mem, hist, ops, conc, vf, vh, mt>>

KernelNext ==
    \/ AddVertex
    \/ \E source, target \in 0..(MaxVertices - 1) : AddEdge(source, target)
    \/ \E v \in 0..(MaxVertices - 1) : CollectSuccessors(v)
    \/ \E v \in 0..(MaxVertices - 1) : CollectAncestors(v)

KernelSpec == KernelInit /\ [][KernelNext]_vars

\* the other ends of the edges of the log that have v at position end
\* (1 source, 2 target), the last added first
RECURSIVE OtherEnds(_, _, _)
OtherEnds(log, v, end) ==
    IF log = <<>> THEN <<>>
    ELSE IF log[Len(log)][end] = v
    THEN <<log[Len(log)][3 - end]>> \o OtherEnds(SubSeq(log, 1, Len(log) - 1), v, end)
    ELSE OtherEnds(SubSeq(log, 1, Len(log) - 1), v, end)

\* C20: after any sequence of add_vertex and add_edge, successors(v) yields
\* the targets of exactly the edges added with source v, the most recently
\* added first, and ancestors(v) the sources of exactly the edges added with
\* target v, the most recently added first, each edge once.
C20_ChainsListAddedEdges ==
    /\ sys.last.kind = "successors" =>
          (sys.last.r.ok /\ sys.last.r.v = OtherEnds(sys.log, sys.last.v, 1))
    /\ sys.last.kind = "ancestors" =>
          (sys.last.r.ok /\ sys.last.r.v = OtherEnds(sys.log, sys.last.v, 2))

\* the graph of test_small_graph_it, and the ancestors of n2 collected
C20_Witness ==
    /\ sys.log = <<<<0, 1>>, <<1, 2>>, <<0, 2>>>>
    /\ sys.last.kind = "ancestors" /\ sys.last.v = 2
    /\ sys.last.r.v = <<0, 1>>
    /\ CollectNodes(sys.g, Graph_successors(sys.g, 0), FALSE, <<>>).v = <<2, 1>>


(***************************************************************************)
(* NodeRecordPool::disable_cell_records on stored trees.  Nodes are created *)
(* in a store, interior nodes with cells that point to nodes created before *)
(* them; then the chain of an active root cell is disabled in a new pool.   *)
(* sys.rm is the store, sys.ids the nodes created, sys.loc the location     *)
(* given to disable_cell_records, sys.r its result and sys.s the pool's     *)
(* state after it.                                                          *)
(***************************************************************************)
NoLoc == <<0, 0>>

\* the cells of an interior node over a child: a key of one fragment and
\* keys of two and of three fragments
ChildCells(child) ==
    <<NewCell(Key(107, 3), Some(child), <<>>, TRUE),
      NewCell(Key(108, KEY_SIZE + 2), Some(child), <<>>, TRUE),
      NewCell(Key(109, 2 * KEY_SIZE + 1), Some(child), <<>>, TRUE)>>

\* the nodes created: the leaves of NodeInputs, and interior nodes over
\* nodes created before them
TreeInputs(ids) ==
    {node \in NodeInputs : node.is_leaf}
    \cup { NewNode(None, None, FALSE, FALSE, SubSeq(ChildCells(child), i, j)) :
             child \in ids, i \in 1..3, j \in 1..3 }

DisableInit ==
    /\ sys = [rm |-> EmptyRM, ids |-> {}, loc |-> NoLoc, r |-> Fail(0),
              s |-> OpState(EmptyRM, NoFailure)]
    /\ rm = 0 /\ mem = 0 /\ hist = 0 /\ ops = 0 /\ conc = 0 /\ vf = 0 /\ vh = 0
    /\ mt = 0

\* BTreeNodeStore::create
CreateStored(node) ==
    /\ Cardinality(sys.ids) < MaxNodes
    /\ node \in TreeInputs(sys.ids)
    /\ create(sys.rm, node, NoFailure, <<>>).ok
    /\ sys' = [rm |-> create(sys.rm, node, NoFailure, <<>>).s.rm,
               ids |-> sys.ids \cup {create(sys.rm, node, NoFailure, <<>>).v},
               loc |-> NoLoc, r |-> Fail(0),
               s |-> OpState(create(sys.rm, node, NoFailure, <<>>).s.rm, NoFailure)]
    /\ UNCHANGED <<rm, mem, hist, ops, conc, vf, vh, mt>>

\* disable_cell_records(loc) in a new pool, loc the location of a root cell;
\* fuel is the number of loads that succeed
DisableCellRecords(loc, fuel) ==
    /\ loc \in RootCellLocs(sys.rm)
    /\ sys' = [sys EXCEPT
                 !.loc = loc,
                 !.r = [ok |-> disable_cell_records(OpState(sys.rm, fuel), loc, MaxChainSteps).ok,
                        v |-> disable_cell_records(OpState(sys.rm, fuel), loc, MaxChainSteps).v],
                 !.s = disable_cell_records(OpState(sys.rm, fuel), loc, MaxChainSteps).s]
    /\ UNCHANGED <<rm, mem, hist, ops, conc, vf, vh, mt>>

DisableNext ==
    \/ \E node \in TreeInputs(1..(3 * MaxNodes)) : CreateStored(node)
    \/ \E loc \in (1..(3 * MaxNodes)) \X (0..(NB_CELL - 1)) : \E fuel \in FuelChoices :
          DisableCellRecords(loc, fuel)

DisableSpec == DisableInit /\ [][DisableNext]_vars

\* the set of the elements of a sequence
Range(q) == {q[i] : i \in 1..Len(q)}

\* C21: after disable_cell_records(loc) has returned Some, every cell of the
\* overflow chain that starts at loc is inactive in the pool's records, and
\* the walk has loaded only records that hold a cell of that chain: it ends
\* at the first cell without HAS_OVERFLOW and does not follow the child
\* pointer of the last fragment.
C21_DisablesTheChainOnly ==
    (sys.loc # NoLoc /\ sys.r.ok /\ sys.r.v = "done") =>
        /\ \A l \in Range(ChainLocs(sys.rm, sys.loc, MaxChainSteps)) :
              ~CellAt(RecordView(sys.s, l[1]), l[2]).active
        /\ PoolIds(sys.s) \subseteq {l[1] : l \in Range(ChainLocs(sys.rm, sys.loc, MaxChainSteps))}


(***************************************************************************)
(* BTreeNodeStore::create_cell on one cell.  The pool first takes a number  *)
(* of other cells into free slots, so that the cell's fragments start       *)
(* anywhere in a storage node; then create_cell writes the cell.  sys.cell  *)
(* is the cell, sys.recs the records create_cell returned (the primary      *)
(* fragment first), sys.s the pool after the call.                          *)
(***************************************************************************)
MaxFill == 5

\* keys of less than, exactly and more than one, two and three fragments
CellKeys ==
    {Key(110, n) : n \in {1, KEY_SIZE - 1, KEY_SIZE, KEY_SIZE + 1, 2 * KEY_SIZE,
                          2 * KEY_SIZE + 5, 3 * KEY_SIZE}}

\* posting lists of no, one, two and three fragments
CellLists == {<<>>, <<11>>, <<11, 12>>, <<11, 12, 13>>, <<11, 12, 13, 14>>, <<11, 12, 13, 14, 15>>}

CellInputs ==
    {NewCell(k, Some(9), <<>>, TRUE) : k \in CellKeys}
    \cup {NewCell(k, None, l, TRUE) : k \in CellKeys, l \in CellLists}

NoCell == NewCell(<<>>, None, <<>>, FALSE)

CellInit ==
    /\ sys = [s |-> OpState(EmptyRM, NoFailure), n |-> 0, cell |-> NoCell, recs |-> <<>>]
    /\ rm = 0 /\ mem = 0 /\ hist = 0 /\ ops = 0 /\ conc = 0 /\ vf = 0 /\ vh = 0
    /\ mt = 0

\* a cell of another chain takes a free slot
FillSlot ==
    /\ sys.cell = NoCell
    /\ sys.n < MaxFill
    /\ insert_cell_in_free_slot(sys.s, ActiveCellRecord).ok
    /\ sys' = [sys EXCEPT !.s = Settled(insert_cell_in_free_slot(sys.s, ActiveCellRecord).s),
                          !.n = @ + 1]
    /\ UNCHANGED <<rm, mem, hist, ops, conc, vf, vh, mt>>

\* create_cell(pool, cell) returned Some
CreateCell(cell) ==
    /\ sys.cell = NoCell
    /\ create_cell(KEY_SIZE, sys.s, cell).ok
    /\ sys' = [sys EXCEPT !.s = Settled(create_cell(KEY_SIZE, sys.s, cell).s),
                          !.cell = cell,
                          !.recs = create_cell(KEY_SIZE, sys.s, cell).v]
    /\ UNCHANGED <<rm, mem, hist, ops, conc, vf, vh, mt>>

CellNext ==
    \/ FillSlot
    \/ \E cell \in CellInputs : CreateCell(cell)

CellSpec == CellInit /\ [][CellNext]_vars

\* the records of the chain that starts with rec: along
\* get_next_cell_location while HAS_OVERFLOW is set
RECURSIVE ChainRecords(_, _, _)
ChainRecords(s, rec, steps) ==
    IF ~rec.has_overflow \/ steps = 0 THEN <<rec>>
    ELSE IF rec.node_ptr \notin 1..Len(s.rm.recs) \/ rec.overflow_cell_ptr >= NB_CELL
    THEN <<rec>>
    ELSE <<rec>> \o ChainRecords(s, CellAt(RecordView(s, rec.node_ptr), rec.overflow_cell_ptr),
                                 steps - 1)

\* ceil(a / b)
CeilDiv(a, b) == (a + b - 1) \div b

Min(a, b) == IF a < b THEN a ELSE b

\* the payload is the i-th fragment of the key: its bytes, and a NUL after
\* them unless they fill the payload
IsKeyFragment(rec, key, i) ==
    /\ ~rec.is_list_ptr
    /\ SubSeq(rec.key, 1, Min(KEY_SIZE, Len(key) - (i - 1) * KEY_SIZE))
          = SubSeq(key, (i - 1) * KEY_SIZE + 1, Min(i * KEY_SIZE, Len(key)))
    /\ Len(key) - (i - 1) * KEY_SIZE < KEY_SIZE =>
          rec.key[Len(key) - (i - 1) * KEY_SIZE + 1] = 0

\* the pointers of a posting-list payload: the 16-bit count, then that many
\* 64-bit pointers
PayloadCount(rec) == from_be_bytes(SubSeq(rec.key, 1, COUNTER_SIZE))

PayloadPtrs(rec) ==
    [k \in 1..PayloadCount(rec) |->
        from_be_bytes(SubSeq(rec.key, COUNTER_SIZE + (k - 1) * NODE_PTR_SIZE + 1,
                             COUNTER_SIZE + k * NODE_PTR_SIZE))]

RECURSIVE ConcatPtrs(_, _)
ConcatPtrs(recs, i) ==
    IF i > Len(recs) THEN <<>> ELSE PayloadPtrs(recs[i]) \o ConcatPtrs(recs, i + 1)

\* C23: the chain create_cell writes for a cell is the primary fragment,
\* then the other key fragments in key order, then the posting-list
\* fragments: a key of length L has ceil(L / KEY_SIZE) key fragments, a
\* fragment of KEY_SIZE key bytes has no NUL, and every fragment but the last
\* of the chain has HAS_OVERFLOW set.
C23_ChainOfCreatedCell ==
    sys.cell # NoCell =>
        /\ ChainRecords(sys.s, sys.recs[1], MaxChainSteps)[1] = sys.recs[1]
        /\ Len(ChainRecords(sys.s, sys.recs[1], MaxChainSteps)) >= CeilDiv(Len(sys.cell.key), KEY_SIZE)
        /\ \A i \in 1..Len(ChainRecords(sys.s, sys.recs[1], MaxChainSteps)) :
              /\ ChainRecords(sys.s, sys.recs[1], MaxChainSteps)[i].active
              /\ ChainRecords(sys.s, sys.recs[1], MaxChainSteps)[i].has_overflow
                    = (i < Len(ChainRecords(sys.s, sys.recs[1], MaxChainSteps)))
              /\ IF i <= CeilDiv(Len(sys.cell.key), KEY_SIZE)
                 THEN IsKeyFragment(ChainRecords(sys.s, sys.recs[1], MaxChainSteps)[i],
                                    sys.cell.key, i)
                 ELSE ChainRecords(sys.s, sys.recs[1], MaxChainSteps)[i].is_list_ptr
        /\ ConcatPtrs(ChainRecords(sys.s, sys.recs[1], MaxChainSteps),
                      CeilDiv(Len(sys.cell.key), KEY_SIZE) + 1) = sys.cell.data_ptrs
        /\ ChainRecords(sys.s, sys.recs[1], MaxChainSteps)
              [Len(ChainRecords(sys.s, sys.recs[1], MaxChainSteps))].node_ptr
              = unwrap_or_default(sys.cell.node_ptr)

\* a key of exactly 2 * KEY_SIZE bytes with a posting list of three
\* fragments, written across two storage nodes
C23_Witness ==
    /\ sys.cell # NoCell
    /\ Len(sys.cell.key) = 2 * KEY_SIZE
    /\ Len(sys.cell.data_ptrs) = 5
    /\ Len(ChainRecords(sys.s, sys.recs[1], MaxChainSteps)) = 5
    /\ Len(sys.s.rm.recs) = 2
    /\ sys.recs[1].key = Key(110, KEY_SIZE)


(***************************************************************************)
(* The split of a posting list into IS_LIST_PTR payloads, by create_cell    *)
(* and by update_cell_data_ptrs, for payloads of key_size bytes.  A cell    *)
(* with a posting list is created on a new store; its list is then          *)
(* replaced, each time on the list cells that load_overflow_cell_records    *)
(* reads from the chain as the call before left it.  sys.key_size is the    *)
(* size, sys.s the pool over the store, sys.root the cell's primary         *)
(* record, sys.ptrs the list given, sys.frags the payloads in the order in  *)
(* which the loop closed them, sys.ok whether the call returned Some,       *)
(* sys.n the number of updates.                                             *)
(***************************************************************************)
MaxPtrs == 6

MaxUpdates == 2

\* payload sizes: key_size - 2 is 16, 18, 24, 25
SplitKeySizes == {18, KEY_SIZE, 26, 27}

PtrLists(base) == {[k \in 1..n |-> base + k] : n \in 1..MaxPtrs}

Payloads(cell_records) == [i \in 1..Len(cell_records) |-> cell_records[i].key]

\* the list cells update_cell_data_ptrs finds on the chain of the cell
ListCellsRead(s, root_cell_record) ==
    IF load_overflow_cell_records(s, root_cell_record).ok
    THEN SelectSeq(load_overflow_cell_records(s, root_cell_record).v.cells,
                   LAMBDA x : x.is_list_ptr)
    ELSE <<>>

\* what the loop of update_cell_data_ptrs closes: cells_to_update, then
\* cells_to_create
ClosedListCells(c) == c.upd \o c.crt

SplitInit ==
    /\ sys = [key_size |-> KEY_SIZE, s |-> OpState(EmptyRM, NoFailure),
              root |-> NewCellRecord, ptrs |-> <<>>, frags |-> <<>>, op |-> "new",
              ok |-> TRUE, n |-> 0]
    /\ rm = 0 /\ mem = 0 /\ hist = 0 /\ ops = 0 /\ conc = 0 /\ vf = 0 /\ vh = 0
    /\ mt = 0

\* create_cell on a cell with the posting list data_ptrs
SplitCreate(key_size, data_ptrs) ==
    /\ sys.op = "new"
    /\ create_cell(key_size, sys.s, NewCell(Key(107, 1), None, data_ptrs, TRUE)).ok
    /\ sys' = [sys EXCEPT
                 !.key_size = key_size, !.ptrs = data_ptrs, !.op = "create",
                 !.s = Settled(create_cell(key_size, sys.s,
                                           NewCell(Key(107, 1), None, data_ptrs, TRUE)).s),
                 !.root = create_cell(key_size, sys.s,
                                      NewCell(Key(107, 1), None, data_ptrs, TRUE)).v[1],
                 !.frags = Payloads(SelectSeq(
                               create_cell(key_size, sys.s,
                                           NewCell(Key(107, 1), None, data_ptrs, TRUE)).v,
                               LAMBDA x : x.is_list_ptr))]
    /\ UNCHANGED <<rm, mem, hist, ops, conc, vf, vh, mt>>

\* update_cell_data_ptrs on the cell: on None or a panic the loop's
\* fragments are not kept
SplitUpdate(data_ptrs) ==
    /\ sys.op # "new" /\ sys.ok
    /\ sys.n < MaxUpdates
    /\ sys' = IF update_cell_data_ptrs(sys.key_size, sys.s, sys.root, data_ptrs).ok
              THEN [sys EXCEPT
                      !.ptrs = data_ptrs, !.op = "update", !.n = @ + 1,
                      !.s = Settled(update_cell_data_ptrs(sys.key_size, sys.s, sys.root,
                                                          data_ptrs).s),
                      !.frags = Payloads(ClosedListCells(
                                    FillListCells(sys.key_size, data_ptrs, 1,
                                        FirstListCell(ListCellsRead(sys.s, sys.root)))))]
              ELSE [sys EXCEPT !.ptrs = data_ptrs, !.op = "update", !.n = @ + 1,
                               !.ok = FALSE, !.frags = <<>>]
    /\ UNCHANGED <<rm, mem, hist, ops, conc, vf, vh, mt>>

SplitNext ==
    \/ \E key_size \in SplitKeySizes : \E data_ptrs \in PtrLists(10) :
          SplitCreate(key_size, data_ptrs)
    \/ \E data_ptrs \in PtrLists(20) \cup PtrLists(30) : SplitUpdate(data_ptrs)

SplitSpec == SplitInit /\ [][SplitNext]_vars

\* the count field of a posting-list payload and the pointers it counts
CountOf(payload) == from_be_bytes(SubSeq(payload, 1, COUNTER_SIZE))

PtrsOf(payload) ==
    [k \in 1..CountOf(payload) |->
        from_be_bytes(SubSeq(payload, COUNTER_SIZE + (k - 1) * NODE_PTR_SIZE + 1,
                             COUNTER_SIZE + k * NODE_PTR_SIZE))]

RECURSIVE ConcatPtrsOf(_, _)
ConcatPtrsOf(frags, i) ==
    IF i > Len(frags) THEN <<>> ELSE PtrsOf(frags[i]) \o ConcatPtrsOf(frags, i + 1)

\* the fragments hold the list, every one but the last holds per pointers
\* and the last at most per
SplitBy(per) ==
    /\ ConcatPtrsOf(sys.frags, 1) = sys.ptrs
    /\ \A i \in 1..(Len(sys.frags) - 1) : CountOf(sys.frags[i]) = per
    /\ CountOf(sys.frags[Len(sys.frags)]) \in 1..per

\* C24: a posting list split by create_cell or update_cell_data_ptrs has
\* floor((KEY_SIZE - 2) / 8) pointers in every fragment but the last, also
\* when KEY_SIZE - 2 is a multiple of 8, and each count field is the number
\* of pointers of its fragment.
C24_FragmentsFull ==
    (sys.op # "new" /\ sys.ok) => SplitBy((sys.key_size - COUNTER_SIZE) \div NODE_PTR_SIZE)

\* what the loops do: a fragment is closed when the next pointer would end
\* at or after the payload's last byte
SplitClosesOneEarly ==
    (sys.op # "new" /\ sys.ok) =>
        SplitBy(IF (sys.key_size - COUNTER_SIZE) % NODE_PTR_SIZE = 0
                THEN (sys.key_size - COUNTER_SIZE) \div NODE_PTR_SIZE - 1
                ELSE (sys.key_size - COUNTER_SIZE) \div NODE_PTR_SIZE)


(***************************************************************************)
(* load_overflow_cell_records on a stored chain.  The store holds two       *)
(* storage nodes; the chain is a path of distinct cell locations (node id,  *)
(* cell index), and its last fragment either ends the chain or names its    *)
(* own location as the next one.  sys.path and sys.ending describe the      *)
(* chain, sys.r is what load_overflow_cell_records returned and whether it  *)
(* logged a cycle, sys.cell the cell retrieve_cell built.                   *)
(***************************************************************************)
MaxChainLen == 3

ChainNodes == {1, 2}

\* the paths of 1 to MaxChainLen distinct locations
ChainPaths ==
    {p \in UNION {[1..n -> ChainNodes \X (0..(NB_CELL - 1))] : n \in 1..MaxChainLen} :
        \A i, j \in 1..Len(p) : i # j => p[i] # p[j]}

\* the i-th fragment of the chain
FragmentOf(path, ending, i) ==
    IF i < Len(path)
    THEN chain_with_cell_location(
             [ActiveCellRecord EXCEPT !.has_overflow = TRUE, !.key = CopyInto(ZeroKey, 0, Key(110 + i, 2))],
             path[i + 1])
    ELSE IF ending = "self"
    THEN chain_with_cell_location(
             [ActiveCellRecord EXCEPT !.has_overflow = TRUE, !.key = CopyInto(ZeroKey, 0, Key(110 + i, 2))],
             path[i])
    ELSE [ActiveCellRecord EXCEPT !.key = CopyInto(ZeroKey, 0, Key(110 + i, 2))]

\* the storage node id with the chain's fragments in their slots
ChainNodeRecord(path, ending, id) ==
    [OverflowNodeRecord EXCEPT
        !.cells = [c \in 1..NB_CELL |->
                      IF \E i \in 1..Len(path) : path[i] = <<id, c - 1>>
                      THEN FragmentOf(path, ending,
                                      CHOOSE i \in 1..Len(path) : path[i] = <<id, c - 1>>)
                      ELSE NewCellRecord]]

\* the primary fragment, in a node's own slot
ChainRootCell(path) ==
    chain_with_cell_location(
        [ActiveCellRecord EXCEPT !.has_overflow = TRUE, !.key = CopyInto(ZeroKey, 0, Key(110, 2))],
        path[1])

NoLoad == [ok |-> FALSE, cycle |-> FALSE, cells |-> <<>>, why |-> "new"]

CycleInit ==
    /\ sys = [s |-> OpState(EmptyRM, NoFailure), path |-> <<>>, ending |-> "end",
              op |-> "new", r |-> NoLoad, cell |-> NoCell]
    /\ rm = 0 /\ mem = 0 /\ hist = 0 /\ ops = 0 /\ conc = 0 /\ vf = 0 /\ vh = 0
    /\ mt = 0

\* the file holds the chain
StoreChain(path, ending) ==
    /\ sys.op = "new"
    /\ sys' = [sys EXCEPT
                 !.s = OpState([recs |-> <<ChainNodeRecord(path, ending, 1),
                                           ChainNodeRecord(path, ending, 2)>>,
                                root |-> 0, free |-> 1], NoFailure),
                 !.path = path, !.ending = ending, !.op = "store"]
    /\ UNCHANGED <<rm, mem, hist, ops, conc, vf, vh, mt>>

LoadResult(r) ==
    IF r.ok THEN [ok |-> TRUE, cycle |-> r.v.cycle, cells |-> r.v.cells, why |-> "some"]
    ELSE [ok |-> FALSE, cycle |-> FALSE, cells |-> <<>>, why |-> r.v]

\* retrieve_cell on the primary fragment, with a new pool
RetrieveChain ==
    /\ sys.op = "store"
    /\ sys' = [sys EXCEPT
                 !.op = "load",
                 !.r = LoadResult(load_overflow_cell_records(sys.s, ChainRootCell(sys.path))),
                 !.cell = IF retrieve_cell(sys.s, ChainRootCell(sys.path)).ok
                          THEN retrieve_cell(sys.s, ChainRootCell(sys.path)).v
                          ELSE NoCell]
    /\ UNCHANGED <<rm, mem, hist, ops, conc, vf, vh, mt>>

CycleNext ==
    \/ \E path \in ChainPaths : \E ending \in {"end", "self"} : StoreChain(path, ending)
    \/ RetrieveChain

CycleSpec == CycleInit /\ [][CycleNext]_vars

\* a cycle is reported exactly for the chains whose last fragment names
\* its own location
CycleReportedIffSelfReference ==
    sys.op = "load" => ((sys.r.ok /\ sys.r.cycle) <=> sys.ending = "self")

\* a reported cycle gives an empty result
CycleGivesEmptyResult ==
    (sys.op = "load" /\ sys.r.ok /\ sys.r.cycle) => sys.r.cells = <<>>

\* C25: load_overflow_cell_records reports a cycle exactly when a fragment's
\* next location (node id, cell index) is the fragment's own location; the
\* traversal then stops with an empty result; a chain without such a
\* fragment, also one whose consecutive fragments have the same cell index
\* in different nodes, reports no cycle.
C25_CycleIsSelfReference ==
    CycleReportedIffSelfReference /\ CycleGivesEmptyResult

\* the comparison the code makes: the cell index alone, on the fragments
\* read from the node loaded first
SameNodeChain ==
    \A i \in 1..Len(sys.path) : sys.path[i][1] = sys.path[1][1]

CycleReportedWithinOneNode ==
    (sys.op = "load" /\ SameNodeChain) => ((sys.r.ok /\ sys.r.cycle) <=> sys.ending = "self")


\* C26: retrieve_node follows a chain whose consecutive fragments lie in
\* different storage nodes: after a create that needed more than one storage
\* node, every cell comes back with the key, the child pointer and the
\* posting list it was created with.
C26_ChainAcrossStorageNodes ==
    (hist.op = "create" /\ hist.ok /\ ~OneStorageNode)
        => /\ Retrieved.ok
           /\ SameKeys(Retrieved.v.cells, hist.node.cells)
           /\ SamePostingLists(Retrieved.v.cells, hist.node.cells)
           /\ hist.node.is_leaf \/ SameInteriorCells(Retrieved.v.cells, hist.node.cells)


\* the payloads of the key fragments of the chain that starts with rec, in
\* the store r
KeyPayloads(r, rec) ==
    SelectSeq(ChainRecords(OpState(r, NoFailure), rec, MaxChainSteps),
              LAMBDA c : ~c.is_list_ptr)

\* the cells of a and b agree but for the posting lists of the cells marked
\* in changed
SameButLists(a, b, changed) ==
    /\ Len(a) = Len(b)
    /\ \A i \in 1..Len(a) :
          /\ a[i].key = b[i].key
          /\ ~changed[i].changed => (a[i].node_ptr = b[i].node_ptr /\ a[i].data_ptrs = b[i].data_ptrs)

\* the last operation was a successful save of a leaf whose only change is
\* an append to the posting list of one cell
SavedOneAppend ==
    /\ Saved /\ hist.node.is_leaf /\ hist.node.log = <<>>
    /\ Cardinality({i \in 1..Len(hist.node.cells) : hist.node.cells[i].changed}) = 1

\* C27: a save whose only change is an append to the posting list of one
\* cell leaves the rest as it was: the key and the key fragments of that
\* cell, and the key, child pointer and posting list of every other cell,
\* read from the store before and after the save.
C27_AppendLeavesRestUnchanged ==
    (SavedOneAppend /\ retrieve_node(hist.pre, hist.node.id[1]).ok)
        => /\ Retrieved.ok
           /\ SameButLists(retrieve_node(hist.pre, hist.node.id[1]).v.cells, Retrieved.v.cells,
                           hist.node.cells)
           /\ \A c \in 1..NB_CELL :
                 hist.pre.recs[hist.node.id[1]].cells[c].active =>
                    KeyPayloads(hist.pre, hist.pre.recs[hist.node.id[1]].cells[c])
                       = KeyPayloads(rm, rm.recs[hist.node.id[1]].cells[c])

\* the cell of the chain that starts with rec in the store r, each fragment
\* read at the location its predecessor names
StoredCell(r, rec) ==
    FoldOverflowCells(Tail(ChainRecords(OpState(r, NoFailure), rec, MaxChainSteps)), 1,
                      [vkey |-> append_key(<<>>, rec.key), ptrs |-> <<>>, is_leaf_cell |-> FALSE])

\* the records of the cells without an append hold the same key and posting
\* list before and after the save
AppendLeavesRecordsUnchanged ==
    SavedOneAppend =>
        \A c \in 1..Len(hist.node.cells) :
            ~hist.node.cells[c].changed =>
                StoredCell(hist.pre, hist.pre.recs[hist.node.id[1]].cells[c])
                   = StoredCell(rm, rm.recs[hist.node.id[1]].cells[c])

(***************************************************************************)
(* The root of the tree: create and save of nodes that are, become or stop  *)
(* being the root.  sys.rm is the store, sys.node the logical node in       *)
(* memory, sys.pre the store before the last operation, sys.op and sys.ok   *)
(* that operation and its outcome, sys.n the number of operations so far.   *)
(***************************************************************************)
RootInputs ==
    {NewNode(None, node.node_ptr, node.is_leaf, is_root, node.cells) :
        node \in NodeInputs, is_root \in BOOLEAN}

RootInit ==
    /\ sys = [rm |-> EmptyRM, node |-> NoNode, pre |-> EmptyRM, op |-> "init", ok |-> TRUE,
              n |-> 0]
    /\ rm = 0 /\ mem = 0 /\ hist = 0 /\ ops = 0 /\ conc = 0 /\ vf = 0 /\ vh = 0
    /\ mt = 0

\* BTreeNodeStore::create(node)
CreateNode(node) ==
    /\ sys.ok /\ sys.n < MaxOps
    /\ Len(sys.rm.recs) < 3 * MaxNodes
    /\ sys' = [rm |-> create(sys.rm, node, NoFailure, <<>>).s.rm,
               node |-> created_node(sys.rm, node, NoFailure),
               pre |-> sys.rm, op |-> "create",
               ok |-> create(sys.rm, node, NoFailure, <<>>).ok, n |-> sys.n + 1]
    /\ UNCHANGED <<rm, mem, hist, ops, conc, vf, vh, mt>>

\* BTreeNode::new_with_id(id, node_ptr, is_leaf, is_root, cells) on the
\* fields of the node in memory
NewWithRoot(is_root) ==
    /\ sys.ok /\ sys.n < MaxOps
    /\ sys.node # NoNode /\ sys.node.id # None
    /\ sys.node.is_root # is_root
    /\ sys' = [sys EXCEPT
                 !.node = NewNode(sys.node.id, sys.node.node_ptr, sys.node.is_leaf, is_root,
                                  sys.node.cells),
                 !.op = "new", !.pre = sys.rm, !.n = @ + 1]
    /\ UNCHANGED <<rm, mem, hist, ops, conc, vf, vh, mt>>

\* BTreeNodeStore::save(node)
SaveNode ==
    /\ sys.ok /\ sys.n < MaxOps
    /\ sys.node # NoNode /\ sys.node.id # None
    /\ sys' = [sys EXCEPT
                 !.rm = save(sys.rm, sys.node, NoFailure, <<>>).s.rm,
                 !.pre = sys.rm, !.op = "save",
                 !.ok = save(sys.rm, sys.node, NoFailure, <<>>).ok, !.n = @ + 1]
    /\ UNCHANGED <<rm, mem, hist, ops, conc, vf, vh, mt>>

RootNext ==
    \/ \E node \in RootInputs : CreateNode(node)
    \/ \E is_root \in BOOLEAN : NewWithRoot(is_root)
    \/ SaveNode

RootSpec == RootInit /\ [][RootNext]_vars

\* the node was written as the root
WrittenAsRoot == sys.op \in {"create", "save"} /\ sys.ok /\ sys.node.is_root

\* the node was saved as no root
SavedAsNoRoot == sys.op = "save" /\ sys.ok /\ ~sys.node.is_root

\* C28: after create or save of a node with is_root the header's root
\* pointer is the node's id and retrieve_node of that id gives a root, also
\* when the node was stored as no root before; after save of a node
\* without is_root its record has the ROOT flag cleared and the root pointer
\* is the one of before.
C28_RootSelected ==
    /\ WrittenAsRoot =>
          /\ sys.rm.root = sys.node.id[1]
          /\ retrieve_node(sys.rm, sys.node.id[1]).ok
          /\ retrieve_node(sys.rm, sys.node.id[1]).v.is_root
    /\ SavedAsNoRoot =>
          /\ ~sys.rm.recs[sys.node.id[1]].root
          /\ sys.rm.root = sys.pre.root

\* the same but for nodes stored as no root before the save
RootSelectedUnlessPromoted ==
    /\ (WrittenAsRoot /\ (sys.op = "save" => sys.pre.recs[sys.node.id[1]].root)) =>
          /\ sys.rm.root = sys.node.id[1]
          /\ retrieve_node(sys.rm, sys.node.id[1]).ok
          /\ retrieve_node(sys.rm, sys.node.id[1]).v.is_root
    /\ SavedAsNoRoot =>
          /\ ~sys.rm.recs[sys.node.id[1]].root
          /\ sys.rm.root = sys.pre.root


(***************************************************************************)
(* save called again on the node in memory.  sys.rm is the store, sys.node  *)
(* the logical node, sys.pre the store before the last operation, sys.op    *)
(* that operation, sys.ok its outcome, sys.saves the number of successful   *)
(* saves since the node was last mutated.                                   *)
(***************************************************************************)
ResaveInit ==
    /\ sys = [rm |-> EmptyRM, node |-> NoNode, pre |-> EmptyRM, op |-> "init", ok |-> TRUE,
              saves |-> 0, n |-> 0]
    /\ rm = 0 /\ mem = 0 /\ hist = 0 /\ ops = 0 /\ conc = 0 /\ vf = 0 /\ vh = 0
    /\ mt = 0

\* BTreeNodeStore::create(node)
ResaveCreate(node) ==
    /\ sys.op = "init"
    /\ create(sys.rm, node, NoFailure, <<>>).ok
    /\ sys' = [rm |-> create(sys.rm, node, NoFailure, <<>>).s.rm,
               node |-> [node EXCEPT !.id = Some(create(sys.rm, node, NoFailure, <<>>).v)],
               pre |-> sys.rm, op |-> "create", ok |-> TRUE, saves |-> 0, n |-> 1]
    /\ UNCHANGED <<rm, mem, hist, ops, conc, vf, vh, mt>>

\* append_data_ptr, insert_cell or remove_cell on the node in memory
ResaveMutate(m) ==
    /\ sys.op # "init" /\ sys.ok /\ sys.n < MaxOps
    /\ m \in Mutations(sys.node)
    /\ Len(sys.node.log) < MaxLog
    /\ sys' = [sys EXCEPT !.node = Mutate(sys.node, m), !.op = m.kind, !.pre = sys.rm,
                          !.saves = 0, !.n = @ + 1]
    /\ UNCHANGED <<rm, mem, hist, ops, conc, vf, vh, mt>>

\* BTreeNodeStore::save(node); save has no statement that changes the node
Resave ==
    /\ sys.op # "init" /\ sys.ok /\ sys.n < MaxOps + 1
    /\ sys' = [sys EXCEPT
                 !.rm = save(sys.rm, sys.node, NoFailure, <<>>).s.rm,
                 !.pre = sys.rm, !.op = "save",
                 !.ok = save(sys.rm, sys.node, NoFailure, <<>>).ok,
                 !.saves = IF save(sys.rm, sys.node, NoFailure, <<>>).ok THEN @ + 1 ELSE @,
                 !.n = @ + 1]
    /\ UNCHANGED <<rm, mem, hist, ops, conc, vf, vh, mt>>

ResaveNext ==
    \/ \E node \in NodeInputs : ResaveCreate(node)
    \/ \E kind \in {"append", "insert", "remove"} : \E index \in 0..NB_CELL :
          ResaveMutate([kind |-> kind, index |-> index])
    \/ Resave

ResaveSpec == ResaveInit /\ [][ResaveNext]_vars

\* the change log and the list-changed state of the node are empty
ChangesReset(node) ==
    /\ node.log = <<>>
    /\ \A i \in 1..Len(node.cells) : ~node.cells[i].changed

\* the stored node of id reads the same in the stores a and b
SameStoredNode(a, b, id) ==
    /\ retrieve_node(a, id).ok = retrieve_node(b, id).ok
    /\ retrieve_node(a, id).ok => retrieve_node(a, id).v = retrieve_node(b, id).v
    /\ a.recs[id] = b.recs[id]

\* C29: a successful save resets the node's cell change log and the
\* list-changed state of its cells, and a second save of the same node in
\* memory, nothing changed in between, leaves the stored node as the first
\* save left it.
C29_SaveConsumesChanges ==
    /\ (sys.op = "save" /\ sys.ok) => ChangesReset(sys.node)
    /\ (sys.op = "save" /\ sys.ok /\ sys.saves >= 2) =>
          SameStoredNode(sys.pre, sys.rm, sys.node.id[1])

\* the second save alone
SecondSaveChangesNothing ==
    (sys.op = "save" /\ sys.ok /\ sys.saves >= 2) =>
        SameStoredNode(sys.pre, sys.rm, sys.node.id[1])

\* a second save of a node without a change log or with appends only
SecondSaveWithoutLog ==
    (sys.op = "save" /\ sys.ok /\ sys.saves >= 2 /\ sys.node.log = <<>>) =>
        SameStoredNode(sys.pre, sys.rm, sys.node.id[1])


\* C30: BTreeIndex::search of a key that is not stored returns None and does
\* not fault, whatever the tree: a key greater than every key of an interior
\* node does not make the descent index past the node's last cell.
C30_AbsentKeyGivesNone ==
    (sys.key # 0 /\ <<sys.key, sys.key>> \notin sys.inserted) =>
        (~sys.found.ok /\ sys.found.v = "none")

\* on a new index file the search returns None
AbsentKeyOnNewFile ==
    (sys.key # 0 /\ sys.pages = <<>>) => (~sys.found.ok /\ sys.found.v = "none")


(***************************************************************************)
(* VF2: State::feasible called on the states a matcher builds.              *)
(* sys = [graph_0, target, graph_1, st, stack, call]: target is the graph   *)
(* in the repository of the proxy graph_1, stack holds the pairs pushed,    *)
(* call = [v, w, res, edges] the last call of feasible, what it returned    *)
(* and what its two loops over the pattern edges returned.  The repository  *)
(* cannot resolve the nodes lost_nodes and the relationships lost_rels of   *)
(* the target.  A matcher pushes a pair after it has called feasible on it, *)
(* so the target vertex of a push is one the proxy has loaded.              *)
(***************************************************************************)
\* a wildcard edge and a labelled edge between the same two vertices
PWild == Graph(<<"N", "N">>, <<Edge(1, 2, "r"), Edge(1, 2, AnyLabel)>>)

PWildIn == Graph(<<"N", "N">>, <<Edge(2, 1, "r"), Edge(2, 1, AnyLabel)>>)

\* a self-loop and an edge
PSelf == Graph(<<"N", "N">>, <<Edge(1, 1, "r"), Edge(1, 2, "r")>>)

FeasPatterns == {PWild, PWildIn, PSelf}

\* two edges with different labels, in the two orders of the edge chain
TTwoLabels == Graph(<<"N", "N">>, <<Edge(1, 2, "r"), Edge(1, 2, "s")>>)

TTwoLabelsRev == Graph(<<"N", "N">>, <<Edge(1, 2, "s"), Edge(1, 2, "r")>>)

TSelf == Graph(<<"N", "N">>, <<Edge(1, 1, "r"), Edge(1, 2, "r"), Edge(2, 2, "s")>>)

Lose(g, nodes, rels) == [g EXCEPT !.lost_nodes = nodes, !.lost_rels = rels]

FeasTargets ==
    {TTwoLabels, TTwoLabelsRev, TSelf,
     Lose(TTwoLabels, {}, {1}), Lose(TTwoLabels, {}, {1, 2}),
     Lose(TSelf, {2}, {}), Lose(TSelf, {}, {1})}

NoCall == [v |-> 0, w |-> 0, res |-> None, edges |-> None]

FeasInit ==
    /\ \E g0 \in FeasPatterns : \E g1 \in FeasTargets :
           sys = [graph_0 |-> g0, target |-> g1,
                  graph_1 |-> NewProxy(Repository(g1)), st |-> NewState,
                  stack |-> <<>>, call |-> NoCall]
    /\ rm = 0 /\ mem = 0 /\ hist = 0 /\ ops = 0 /\ conc = 0 /\ vf = 0 /\ vh = 0 /\ mt = 0

\* State::push of a pair outside the core
FeasPush(v0, v1) ==
    /\ ~in_core(sys.st.base_state_0, v0)
    /\ ~in_core(sys.st.base_state_1, v1)
    /\ v1 \in DOMAIN sys.graph_1.map_vertices
    /\ sys' = [sys EXCEPT
                  !.st = push(sys.st, sys.graph_0, sys.graph_1, v0, v1).st,
                  !.graph_1 = Fresh(push(sys.st, sys.graph_0, sys.graph_1, v0,
                                         v1).graph_1),
                  !.stack = Append(@, [v0 |-> v0, v1 |-> v1]),
                  !.call = NoCall]
    /\ UNCHANGED <<rm, mem, hist, ops, conc, vf, vh, mt>>

\* State::pop of the pair pushed last
FeasPop ==
    /\ sys.stack # <<>>
    /\ sys' = [sys EXCEPT
                  !.st = pop(sys.st, sys.graph_0, sys.graph_1,
                             sys.stack[Len(sys.stack)].v0,
                             sys.stack[Len(sys.stack)].v1).st,
                  !.graph_1 = Fresh(pop(sys.st, sys.graph_0, sys.graph_1,
                                        sys.stack[Len(sys.stack)].v0,
                                        sys.stack[Len(sys.stack)].v1).graph_1),
                  !.stack = SubSeq(@, 1, Len(@) - 1),
                  !.call = NoCall]
    /\ UNCHANGED <<rm, mem, hist, ops, conc, vf, vh, mt>>

\* what the two loops of feasible(v, w) over the pattern edges return:
\* Some(TRUE) when the edge check has succeeded
EdgeCheckOf(st, graph_0, graph_1, v, w) ==
    With(get_node_ref(graph_1, new_db(w)),
         LAMBDA n : IF n.ok THEN Counted0(st, graph_0, n.s, v, w).res ELSE None)

\* State::feasible of a pair outside the core
Feasible(v, w) ==
    /\ ~in_core(sys.st.base_state_0, v)
    /\ ~in_core(sys.st.base_state_1, w)
    /\ sys' = [sys EXCEPT
                  !.call = [v |-> v, w |-> w,
                            res |-> feasible(sys.st, sys.graph_0, sys.graph_1,
                                             v, w).res,
                            edges |-> EdgeCheckOf(sys.st, sys.graph_0,
                                                  sys.graph_1, v, w)],
                  !.graph_1 = Fresh(feasible(sys.st, sys.graph_0, sys.graph_1,
                                             v, w).graph_1)]
    /\ UNCHANGED <<rm, mem, hist, ops, conc, vf, vh, mt>>

FeasNext ==
    \/ \E v0 \in 1..nodes_len(sys.graph_0) :
           \E v1 \in 1..nodes_len(sys.target) : FeasPush(v0, v1)
    \/ FeasPop
    \/ \E v \in 1..nodes_len(sys.graph_0) :
           \E w \in 1..nodes_len(sys.target) : Feasible(v, w)

FeasSpec == FeasInit /\ [][FeasNext]_vars

\* the pattern edges the edge check of feasible(v, w) looks at: those
\* between v and a vertex of the core, and the self-loops of v
CheckedEdges(st, g, v) ==
    {i \in 1..Len(g.e) :
        \/ g.e[i].s = v /\ (g.e[i].t = v \/ in_core(st.base_state_0, g.e[i].t))
        \/ g.e[i].t = v /\ (g.e[i].s = v \/ in_core(st.base_state_0, g.e[i].s))}

\* the target vertex a pattern vertex stands for in feasible(v, w)
ImageIn(st, v, w, u) == IF u = v THEN w ELSE st.base_state_0.core_map[u]

\* the target edges that run as the pattern edge i runs
Parallels(st, graph_0, graph_1, v, w, i) ==
    {j \in 1..Len(graph_1.e) :
        /\ graph_1.e[j].s = ImageIn(st, v, w, graph_0.e[i].s)
        /\ graph_1.e[j].t = ImageIn(st, v, w, graph_0.e[i].t)}

\* every pattern edge of the check has target edges to look at, and the
\* repository resolves none of those of one of them
OnlyLostEdges(st, graph_0, graph_1, v, w) ==
    /\ \A i \in CheckedEdges(st, graph_0, v) :
           Parallels(st, graph_0, graph_1, v, w, i) # {}
    /\ \E i \in CheckedEdges(st, graph_0, v) :
           Parallels(st, graph_0, graph_1, v, w, i) \subseteq graph_1.lost_rels

Called == sys.call # NoCall

\* C31: feasible(v, w) returns None when the proxy cannot resolve the target
\* vertex w, and Some(false), not None, when the edge check comes to a
\* target edge that get_relationship_ref cannot resolve.
C31_MissingEdgeIsFalse ==
    Called =>
        /\ sys.call.w \in sys.target.lost_nodes => sys.call.res = None
        /\ (/\ sys.call.w \notin sys.target.lost_nodes
            /\ vertex_comp(sys.graph_0.vl[sys.call.v], sys.target.vl[sys.call.w])
            /\ OnlyLostEdges(sys.st, sys.graph_0, sys.target, sys.call.v,
                             sys.call.w))
               => sys.call.res = Some(FALSE)

\* the first half alone: an unresolved target vertex gives None
MissingVertexIsNone ==
    (Called /\ sys.call.w \in sys.target.lost_nodes) => sys.call.res = None


\* the pattern edges of the check that end at v (inbound) or start at v
CheckedIn(st, g, v, inbound) ==
    {i \in CheckedEdges(st, g, v) :
        IF inbound THEN g.e[i].t = v ELSE g.e[i].s = v}

\* f gives every pattern edge of E a target edge of its own that runs as it
\* runs and that edge_comp accepts
IsAssignment(st, graph_0, graph_1, v, w, E, f) ==
    /\ \A i \in E :
           /\ f[i] \in Parallels(st, graph_0, graph_1, v, w, i)
           /\ edge_comp(graph_0.e[i].l, graph_1.e[f[i]].l)
    /\ \A i \in E : \A j \in E : f[i] = f[j] => i = j

Assignable(st, graph_0, graph_1, v, w, E) ==
    \E f \in [E -> 1..Len(graph_1.e)] :
        IsAssignment(st, graph_0, graph_1, v, w, E, f)

\* C32: when feasible(v, w) returns Some(true), every pattern edge between v
\* and a mapped vertex u, and every self-loop of v, has a target edge of the
\* same direction between w and core(u) that edge_comp accepts, and among
\* the edges of one direction no target edge serves two pattern edges.
C32_FeasibleEdgesAssigned ==
    (Called /\ sys.call.res = Some(TRUE)) =>
        \A inbound \in BOOLEAN :
            Assignable(sys.st, sys.graph_0, sys.target, sys.call.v, sys.call.w,
                       CheckedIn(sys.st, sys.graph_0, sys.call.v, inbound))


\* what the two loops of feasible over the pattern edges of the last call
\* returned
EdgeCheck == sys.call.edges

\* the last call came to its edge check, the repository resolves every
\* relationship, and the pattern edges of either direction can be given
\* target edges of their own
CalledAssignable ==
    /\ Called
    /\ sys.call.w \notin sys.target.lost_nodes
    /\ sys.target.lost_rels = {}
    /\ vertex_comp(sys.graph_0.vl[sys.call.v], sys.target.vl[sys.call.w])
    /\ \A inbound \in BOOLEAN :
           Assignable(sys.st, sys.graph_0, sys.target, sys.call.v, sys.call.w,
                      CheckedIn(sys.st, sys.graph_0, sys.call.v, inbound))

\* C37: the edge check of feasible succeeds whenever the pattern edges can
\* be assigned one-to-one to target edges that edge_comp accepts, whatever
\* the order in which the target's out-edges are iterated and also when a
\* pattern edge is compatible with several target edges.
C37_EdgeCheckFindsAssignment == CalledAssignable => EdgeCheck = Some(TRUE)

\* the same for patterns whose edges all name a label, so that the target
\* edges one pattern edge is compatible with are compatible with the same
\* pattern edges
EdgeCheckFindsLabelledAssignment ==
    (/\ CalledAssignable
     /\ \A i \in 1..Len(sys.graph_0.e) : sys.graph_0.e[i].l # AnyLabel)
        => EdgeCheck = Some(TRUE)


\* the counters of one side count the entries of its maps
CountersCountMaps(bs) ==
    /\ bs.term_in_count = Cardinality(DOMAIN bs.in_map)
    /\ bs.term_out_count = Cardinality(DOMAIN bs.out_map)
    /\ bs.term_both_count
           = Cardinality((DOMAIN bs.in_map) \cap (DOMAIN bs.out_map))
    /\ bs.term_in_count >= 0 /\ bs.term_out_count >= 0
    /\ bs.term_both_count >= 0

\* C36: on the pattern side and on the target side of State, after any
\* pushes and pops in the reverse order, term_in_count is the number of
\* entries of in_map, term_out_count the number of entries of out_map and
\* term_both_count the number of vertices that are in both maps; no counter
\* goes below zero.
C36_CountersCountMaps ==
    /\ CountersCountMaps(vf.st.base_state_0)
    /\ CountersCountMaps(vf.st.base_state_1)

\* a pop has left a core of one pair with a vertex outside the core in both
\* maps and one in a single map, a second push having been undone
C36_Witness ==
    /\ vh.op = "pop"
    /\ vf.st.base_state_1.core_count = 1
    /\ \E u \in (DOMAIN vf.st.base_state_1.in_map)
                    \cap (DOMAIN vf.st.base_state_1.out_map) :
           ~in_core(vf.st.base_state_1, u)
    /\ vf.st.base_state_1.term_out_count > vf.st.base_state_1.term_in_count
    /\ vf.st.base_state_0.term_both_count >= 2


(***************************************************************************)
(* The BaseState of src/matcher/vf2/base_state.rs, which holds its graphs   *)
(* and whose pop writes the depth 0 into a map entry in place of removing   *)
(* it.  Its counters are usize: in a build with overflow checks a           *)
(* subtraction from 0 panics, in a build without them it wraps; a counter   *)
(* n < 0 of the model stands for the wrapped value 2^64 + n, and fault      *)
(* tells that a subtraction has wrapped.                                    *)
(* sys = [graph, bs, stack, pre, op, build, panicked, n].                   *)
(***************************************************************************)
MaxCalls == 6

Builds == {"checked", "wrapping"}

BaseState_new ==
    [core_map |-> EmptyMap, in_map |-> EmptyMap, out_map |-> EmptyMap,
     core_count |-> 0, term_in_count |-> 0, term_out_count |-> 0,
     term_both_count |-> 0, fault |-> FALSE]

\* `self.<counter> -= 1`
usize_dec(bs, counter) ==
    [bs EXCEPT ![counter] = @ - 1, !.fault = @ \/ bs[counter] = 0]

\* base_state.rs 22-28 and 39-45
BaseState_enter_in(bs, v) ==
    IF v \in DOMAIN bs.in_map THEN bs
    ELSE [bs EXCEPT !.in_map = MapPut(@, v, bs.core_count),
                    !.term_in_count = @ + 1,
                    !.term_both_count =
                        IF v \in DOMAIN bs.out_map THEN @ + 1 ELSE @]

\* base_state.rs 29-35 and 49-55
BaseState_enter_out(bs, v) ==
    IF v \in DOMAIN bs.out_map THEN bs
    ELSE [bs EXCEPT !.out_map = MapPut(@, v, bs.core_count),
                    !.term_out_count = @ + 1,
                    !.term_both_count =
                        IF v \in DOMAIN bs.in_map THEN @ + 1 ELSE @]

RECURSIVE BaseState_enter_ancestors(_, _, _, _)
BaseState_enter_ancestors(bs, g, es, i) ==
    IF i > Len(es) THEN bs
    ELSE BaseState_enter_ancestors(
             BaseState_enter_in(bs, PropertyGraph_get_source_index(g, es[i])), g, es, i + 1)

RECURSIVE BaseState_enter_successors(_, _, _, _)
BaseState_enter_successors(bs, g, es, i) ==
    IF i > Len(es) THEN bs
    ELSE BaseState_enter_successors(
             BaseState_enter_out(bs, PropertyGraph_get_target_index(g, es[i])), g, es, i + 1)

BaseState_push(bs, g, v0, v1) ==
    BaseState_enter_successors(
        BaseState_enter_ancestors(
            BaseState_enter_out(
                BaseState_enter_in(
                    [bs EXCEPT !.core_count = @ + 1,
                               !.core_map = MapPut(@, v0, v1)],
                    v0),
                v0),
            g, PropertyGraph_in_edges(g, v0), 1),
        g, PropertyGraph_out_edges(g, v0), 1)

\* base_state.rs 64-72 and 76-84
BaseState_leave_in(bs, v) ==
    IF v \in DOMAIN bs.in_map /\ bs.in_map[v] = bs.core_count
    THEN IF v \in DOMAIN bs.out_map
         THEN usize_dec(usize_dec([bs EXCEPT !.in_map = MapPut(@, v, 0)],
                                  "term_in_count"),
                        "term_both_count")
         ELSE usize_dec([bs EXCEPT !.in_map = MapPut(@, v, 0)], "term_in_count")
    ELSE bs

\* base_state.rs 87-95
BaseState_leave_out(bs, v) ==
    IF v \in DOMAIN bs.out_map /\ bs.out_map[v] = bs.core_count
    THEN IF v \in DOMAIN bs.in_map
         THEN usize_dec(usize_dec([bs EXCEPT !.out_map = MapPut(@, v, 0)],
                                  "term_out_count"),
                        "term_both_count")
         ELSE usize_dec([bs EXCEPT !.out_map = MapPut(@, v, 0)],
                        "term_out_count")
    ELSE bs

\* base_state.rs 99-107: the depth tested is the one of in_map
BaseState_leave_successor(bs, target) ==
    IF target \in DOMAIN bs.in_map /\ bs.in_map[target] = bs.core_count
    THEN usize_dec(usize_dec([bs EXCEPT !.out_map = MapPut(@, target, 0)],
                             "term_out_count"),
                   "term_both_count")
    ELSE bs

RECURSIVE BaseState_leave_ancestors(_, _, _, _)
BaseState_leave_ancestors(bs, g, es, i) ==
    IF i > Len(es) THEN bs
    ELSE BaseState_leave_ancestors(
             BaseState_leave_in(bs, PropertyGraph_get_source_index(g, es[i])), g, es, i + 1)

RECURSIVE BaseState_leave_successors(_, _, _, _)
BaseState_leave_successors(bs, g, es, i) ==
    IF i > Len(es) THEN bs
    ELSE BaseState_leave_successors(
             BaseState_leave_successor(bs, PropertyGraph_get_target_index(g, es[i])),
             g, es, i + 1)

BaseState_pop(bs, g, v0, v1) ==
    IF bs.core_count = 0 THEN bs
    ELSE [BaseState_leave_successors(
              BaseState_leave_out(
                  BaseState_leave_ancestors(BaseState_leave_in(bs, v0),
                                            g, PropertyGraph_in_edges(g, v0), 1),
                  v0),
              g, PropertyGraph_out_edges(g, v0), 1)
             EXCEPT !.core_map = MapDel(@, v0), !.core_count = @ - 1]

BaseState_term_in_vertex(bs, v0) ==
    v0 \in DOMAIN bs.in_map /\ bs.in_map[v0] > 0 /\ v0 \notin DOMAIN bs.core_map

BaseState_term_out_vertex(bs, v0) ==
    v0 \in DOMAIN bs.out_map /\ bs.out_map[v0] > 0 /\ v0 \in DOMAIN bs.core_map

BaseState_term_both_vertex(bs, v0) ==
    /\ v0 \in DOMAIN bs.in_map /\ v0 \in DOMAIN bs.out_map
    /\ v0 \in DOMAIN bs.core_map /\ bs.in_map[v0] > 0 /\ bs.out_map[v0] > 0

BaseInit ==
    /\ \E g \in PatternGraphs : \E b \in Builds :
           sys = [graph |-> g, bs |-> BaseState_new, stack |-> <<>>,
                  pre |-> BaseState_new, op |-> "new", build |-> b,
                  panicked |-> FALSE, n |-> 0]
    /\ rm = 0 /\ mem = 0 /\ hist = 0 /\ ops = 0 /\ conc = 0 /\ vf = 0 /\ vh = 0 /\ mt = 0

\* a call that wraps a counter panics in the build with overflow checks
AfterCall(op, bs, stack) ==
    IF sys.build = "checked" /\ bs.fault
    THEN [sys EXCEPT !.panicked = TRUE, !.op = op, !.pre = sys.bs, !.n = @ + 1]
    ELSE [sys EXCEPT !.bs = bs, !.stack = stack, !.op = op, !.pre = sys.bs,
                     !.n = @ + 1]

BasePush(v0, v1) ==
    /\ ~sys.panicked /\ sys.n < MaxCalls
    /\ v0 \notin DOMAIN sys.bs.core_map
    /\ \A u \in DOMAIN sys.bs.core_map : sys.bs.core_map[u] # v1
    /\ sys' = AfterCall("push", BaseState_push(sys.bs, sys.graph, v0, v1),
                        Append(sys.stack, [v0 |-> v0, v1 |-> v1]))
    /\ UNCHANGED <<rm, mem, hist, ops, conc, vf, vh, mt>>

BasePop ==
    /\ ~sys.panicked /\ sys.n < MaxCalls
    /\ sys.stack # <<>>
    /\ sys' = AfterCall("pop",
                        BaseState_pop(sys.bs, sys.graph,
                                      sys.stack[Len(sys.stack)].v0,
                                      sys.stack[Len(sys.stack)].v1),
                        SubSeq(sys.stack, 1, Len(sys.stack) - 1))
    /\ UNCHANGED <<rm, mem, hist, ops, conc, vf, vh, mt>>

BaseNext ==
    \/ \E v0 \in 1..nodes_len(sys.graph) : \E v1 \in 1..nodes_len(sys.graph) :
           BasePush(v0, v1)
    \/ BasePop

BaseSpec == BaseInit /\ [][BaseNext]_vars

\* C33: term_in_vertex, term_out_vertex and term_both_vertex of BaseState
\* return true only for vertices that are not in core_map.
C33_TermVerticesOutsideCore ==
    \A v \in 1..nodes_len(sys.graph) :
        (\/ BaseState_term_in_vertex(sys.bs, v)
         \/ BaseState_term_out_vertex(sys.bs, v)
         \/ BaseState_term_both_vertex(sys.bs, v))
            => v \notin DOMAIN sys.bs.core_map

\* term_in_vertex alone
TermInVertexOutsideCore ==
    \A v \in 1..nodes_len(sys.graph) :
        BaseState_term_in_vertex(sys.bs, v) => v \notin DOMAIN sys.bs.core_map

\* term_out_vertex and term_both_vertex return true only for vertices that
\* are in core_map
TermOutVertexInsideCore ==
    \A v \in 1..nodes_len(sys.graph) :
        (\/ BaseState_term_out_vertex(sys.bs, v)
         \/ BaseState_term_both_vertex(sys.bs, v))
            => v \in DOMAIN sys.bs.core_map


BaseState_in_depth(bs, v0) == IF v0 \in DOMAIN bs.in_map THEN bs.in_map[v0] ELSE 0

BaseState_out_depth(bs, v0) ==
    IF v0 \in DOMAIN bs.out_map THEN bs.out_map[v0] ELSE 0

\* no vertex has a depth above core_count
DepthsWithinCore(bs, g) ==
    \A v \in 1..nodes_len(g) :
        /\ BaseState_in_depth(bs, v) <= bs.core_count
        /\ BaseState_out_depth(bs, v) <= bs.core_count

\* the vertex popped, its predecessors and its successors
Neighbourhood(g, v0) ==
    {v0} \cup {g.e[i].s : i \in {j \in 1..Len(g.e) : g.e[j].t = v0}}
         \cup {g.e[i].t : i \in {j \in 1..Len(g.e) : g.e[j].s = v0}}

\* the pop of v0 has reset the entries that had the depth core_count
PopHasReset(pre, bs, g, v0) ==
    \A v \in Neighbourhood(g, v0) :
        /\ BaseState_in_depth(pre, v) = pre.core_count
               => BaseState_in_depth(bs, v) = 0
        /\ BaseState_out_depth(pre, v) = pre.core_count
               => BaseState_out_depth(bs, v) = 0

CountersNotBelowZero(bs) ==
    /\ bs.term_in_count >= 0 /\ bs.term_out_count >= 0
    /\ bs.term_both_count >= 0 /\ ~bs.fault

\* the pair the last call popped
Popped == sys.pre.core_count > 0 /\ sys.op = "pop" /\ ~sys.panicked

PoppedVertex ==
    CHOOSE v \in DOMAIN sys.pre.core_map : v \notin DOMAIN sys.bs.core_map

\* C34: in BaseState, after any pushes and pops in the reverse order, the
\* in_depth and the out_depth of every vertex are at most core_count; a pop
\* resets every in_map and out_map entry, of the vertex popped and of its
\* predecessors and successors, whose depth is the core_count of before the
\* pop; and no counter goes below zero.
C34_DepthsAndCounters ==
    /\ ~sys.panicked
    /\ DepthsWithinCore(sys.bs, sys.graph)
    /\ CountersNotBelowZero(sys.bs)
    /\ Popped => PopHasReset(sys.pre, sys.bs, sys.graph, PoppedVertex)

\* the parts of the claim one by one
PopNeverPanics == ~sys.panicked

DepthsStayWithinCore == DepthsWithinCore(sys.bs, sys.graph)

CountersStayNotBelowZero == CountersNotBelowZero(sys.bs)

PopResetsDepths == Popped => PopHasReset(sys.pre, sys.bs, sys.graph, PoppedVertex)

\* pushes alone keep the depths within core_count and the counters in step
PushesKeepDepths ==
    Len(sys.stack) = sys.n =>
        /\ DepthsWithinCore(sys.bs, sys.graph)
        /\ CountersNotBelowZero(sys.bs)



(***************************************************************************)
(* GraphProxy: get_node_ref and get_relationship_ref on all the stored      *)
(* vertices, the vertex 3 no edge leads to included.                        *)
(***************************************************************************)
NodeRefNext ==
    \/ \E id \in RepoVertexIds \cup {4} : GetNodeRef(id)
    \/ \E id \in AskedEdgeIds : GetRelationshipRef(id)
    \/ \E v \in {1} : \E inbound \in BOOLEAN : StartEdges(v, inbound)
    \/ IterNext
    \/ IterEnd

NodeRefSpec == ProxyInit /\ [][NodeRefNext]_vars

\* what get_node_ref(id) returns in the state the proxy is in
NodeRefOf(id) == get_node_ref(Fresh(sys.p), new_db(id))

\* the node at the dense position i is the one whose store id has the dense
\* index i
NodesAtDenseIndex(p) ==
    \A i \in 1..Len(p.nodes) :
        p.nodes[i].id # None =>
            /\ p.nodes[i].id[1] \in DOMAIN p.map_vertices
            /\ DenseOf(p.map_vertices, p.nodes[i].id[1]) = i - 1

\* C35: whatever get_node_ref, get_relationship_ref and edge iteration
\* steps a GraphProxy has taken, vertices having got dense slots through
\* edges before their node was fetched or not, a get_node_ref(id) that
\* returns Some(node) returns the node whose id is id.store_id, and the node
\* at the dense position i is the one whose store id has the dense index i.
C35_NodeRefIsTheNodeAsked ==
    /\ \A id \in RepoVertexIds :
           NodeRefOf(id).ok => NodeRefOf(id).v.id = Some(id)
    /\ NodesAtDenseIndex(sys.p)

\* the first part alone
NodeRefHasTheIdAsked ==
    \A id \in RepoVertexIds : NodeRefOf(id).ok => NodeRefOf(id).v.id = Some(id)

\* the second part alone
NodesStayAtDenseIndex == NodesAtDenseIndex(sys.p)

\* as long as no vertex has got its dense slot through an edge, both parts
\* hold
NodeRefWithoutEdges ==
    sys.p.edges = <<>> =>
        /\ NodesAtDenseIndex(sys.p)
        /\ \A id \in RepoVertexIds :
               NodeRefOf(id).ok => NodeRefOf(id).v.id = Some(id)


(***************************************************************************)
(* handle_graph_request with threads that go on whenever they can: a thread *)
(* inside handle_graph_request that can take its next step again and again  *)
(* takes it.  When a client sends a request is left open.                   *)
(***************************************************************************)
ThreadStep(t) ==
    \/ LockTx(t)
    \/ acquire_session_lock(t)
    \/ AcquireWrite(t)
    \/ ReleaseWrite(t)
    \/ AcquireRead(t)
    \/ ReleaseRead(t)
    \/ release_session_lock(t)
    \/ Return(t)

TxFairSpec == TxSpec /\ \A t \in Threads : SF_vars(ThreadStep(t))

\* the commit request of the open transaction of session s has been called
CommitCalled(s) ==
    /\ sys.tx.cur = s /\ sys.pc[s] = "lock" /\ sys.req[s].commit
    /\ sys.acq[s] = 1

\* the commit request of session s returns with the session lock acquired
\* once and released once for the transaction
CommitReturnsBalanced(s) ==
    sys.pc[s] = "return" /\ sys.acq[s] = 1 /\ sys.rel[s] = 1

\* C38: over the requests of one session transaction acquire_session_lock
\* and release_session_lock are balanced: the lock is acquired once for the
\* transaction, also when the opening request had found WaitForCurrentTx and
\* entered handle_graph_request again, and it is released once when the
\* commit request returns.
C38_SessionLockBalanced ==
    /\ \A s \in Threads : CommitCalled(s) ~> CommitReturnsBalanced(s)
    /\ [](\A s \in Threads : sys.acq[s] <= 1 /\ sys.rel[s] <= sys.acq[s])

\* in no state is the lock acquired twice for a transaction or released
\* more often than acquired, and it is held exactly while a transaction has
\* acquired and not released it
SessionLockCounted ==
    /\ \A s \in Threads : sys.acq[s] <= 1 /\ sys.rel[s] <= sys.acq[s]
    /\ sys.tx.session_lock <=> \E s \in Threads : sys.acq[s] > sys.rel[s]

\* no request that found WaitForCurrentTx ever gets the session lock and
\* enters handle_graph_request again
WaiterNeverReenters == \A t \in Threads : sys.depth[t] = 0

\* without a request of another session at the transaction handler the
\* commit request returns balanced
CommitAloneReturnsBalanced ==
    \A s \in Threads :
        CommitCalled(s) ~>
            (\/ CommitReturnsBalanced(s)
             \/ \E t \in Threads \ {s} : sys.pc[t] = "wait_acquire")


(***************************************************************************)
(* Two index operations at once on one store, each with its own             *)
(* NodeRecordPool; the mutex of the records manager is taken for every      *)
(* access and given back after it, so a step is one access: is_empty, a     *)
(* read or a write of the free-list head in the header, a create, a load or *)
(* a save.  What an operation does on its own pool between two accesses     *)
(* belongs to the step of the access before.  An operation writes its       *)
(* overflow fragments with insert_cell_in_free_slot and ends with           *)
(* save_all_node_records, one RecordsManager::save after the other.         *)
(* sys = [rm, th, overlap]: th[t] = [pool, todo, written, pc, id, tosave]   *)
(* is the pool of operation t, the number of fragments it has yet to write, *)
(* the locations it was given with the cells it put there, the access it    *)
(* makes next, the record id it holds for that access and the records       *)
(* save_all_node_records has yet to save; overlap tells that one operation  *)
(* has taken a step between two steps of the other.                         *)
(***************************************************************************)
MaxFragments == 2

Operations == {1, 2}

\* the k-th fragment of operation t
FragmentCell(t, k) ==
    [NewCellRecord EXCEPT !.active = TRUE, !.key = [ZeroKey EXCEPT ![1] = 10 * t + k]]

RECURSIVE Prefilled(_)
\* the store after an operation that wrote k fragments on a new file
Prefilled(k) ==
    IF k = 0 THEN OpState(EmptyRM, NoFailure)
    ELSE insert_cell_in_free_slot(Prefilled(k - 1), FragmentCell(0, k)).s

StoredPrefilled(k) ==
    IF k = 0 THEN EmptyRM
    ELSE save_all_node_records(Prefilled(k), PoolOrder(Prefilled(k), <<>>)).s.rm

NewOperation(todo) ==
    [pool |-> <<>>, todo |-> todo, written |-> <<>>, pc |-> "is_empty", id |-> 0,
     tosave |-> {}, begun |-> FALSE]

PairInit ==
    /\ \E k \in 0..NB_CELL : \E n \in [Operations -> 1..MaxFragments] :
           sys = [rm |-> StoredPrefilled(k),
                  th |-> [t \in Operations |-> NewOperation(n[t])],
                  overlap |-> FALSE]
    /\ rm = 0 /\ mem = 0 /\ hist = 0 /\ ops = 0 /\ conc = 0 /\ vf = 0 /\ vh = 0 /\ mt = 0

\* operation t on its pool and the store as it is now
PoolState(t) == [OpState(sys.rm, NoFailure) EXCEPT !.pool = sys.th[t].pool]

Other(t) == CHOOSE u \in Operations : u # t

\* the other operation has made its first access and has not ended
OtherUnderWay(t) ==
    /\ sys.th[Other(t)].begun
    /\ sys.th[Other(t)].pc \notin {"done", "failed"}

\* FreeCellIterator::next once the free-cell node is known, and the rest of
\* insert_cell_in_free_slot: the first inactive slot of the pool's record
\* takes the cell; the next access is that of the next fragment or the
\* first save
PutCell(th, free_cell_node_id, cell) ==
    IF free_cell_node_id \in DOMAIN th.pool
       /\ FirstInactive(th.pool[free_cell_node_id]) < NB_CELL
    THEN [th EXCEPT
            !.pool[free_cell_node_id] =
                SetCellAt(@, FirstInactive(th.pool[free_cell_node_id]), cell),
            !.written = Append(@, [loc |-> <<free_cell_node_id,
                                            FirstInactive(th.pool[free_cell_node_id])>>,
                                   cell |-> cell]),
            !.todo = @ - 1,
            !.pc = IF th.todo = 1 THEN "save" ELSE "is_empty",
            !.tosave = IF th.todo = 1 THEN DOMAIN th.pool ELSE {}]
    ELSE [th EXCEPT !.pc = "failed"]

\* load_or_create_free_cells_overflow_node with the head's record in the
\* pool: a full record sends the head on to next_free_cells_node_ptr
AtFreeListHead(th, first_free_record_ptr, cell) ==
    IF is_full(th.pool[first_free_record_ptr])
    THEN [th EXCEPT !.pc = "set_next", !.id = th.pool[first_free_record_ptr].next_free]
    ELSE PutCell(th, first_free_record_ptr, cell)

\* self.pool.is_empty_records_set()
AccessIsEmpty(r, th) ==
    [rm |-> r, th |-> [th EXCEPT !.pc = IF Len(r.recs) = 0 THEN "create" ELSE "get_head"]]

\* create_node_record of a new free-cell node (of an empty store, or
\* create_overflow_node)
AccessCreate(r, th) ==
    [rm |-> [r EXCEPT !.recs = Append(@, OverflowNodeRecord)],
     th |-> [th EXCEPT !.pool = ((Len(r.recs) + 1) :> OverflowNodeRecord) @@ @,
                       !.id = Len(r.recs) + 1, !.pc = "set_created"]]

\* set_first_free_list_node_ptr(new_record), then the cell goes into the
\* new node
AccessSetCreated(r, th, cell) ==
    [rm |-> [r EXCEPT !.free = th.id], th |-> PutCell(th, th.id, cell)]

\* get_first_free_list_node_ptr()
AccessGetHead(r, th, cell) ==
    [rm |-> r,
     th |-> IF r.free = 0 THEN [th EXCEPT !.pc = "create"]
            ELSE IF r.free \in DOMAIN th.pool THEN AtFreeListHead(th, r.free, cell)
            ELSE [th EXCEPT !.pc = "load_head", !.id = r.free]]

\* load_node_record_ref(first_free_record_ptr) of a record the pool has
\* not: when the load fails the head is the free-cell node all the same,
\* and FreeCellIterator::next loads it once more
AccessLoadHead(r, th, cell) ==
    [rm |-> r,
     th |-> IF th.id \in 1..Len(r.recs)
            THEN AtFreeListHead([th EXCEPT !.pool = (th.id :> r.recs[th.id]) @@ @],
                                th.id, cell)
            ELSE [th EXCEPT !.pc = "load_node"]]

\* load_node_record_mut(free_cell_node_id) of FreeCellIterator::next after
\* the head could not be loaded: None when it fails again
AccessLoadNode(r, th, cell) ==
    [rm |-> r,
     th |-> IF th.id \in 1..Len(r.recs)
            THEN PutCell([th EXCEPT !.pool = (th.id :> r.recs[th.id]) @@ @], th.id, cell)
            ELSE [th EXCEPT !.pc = "failed"]]

\* set_first_free_list_node_ptr(next), then load_or_create_free_cells_overflow_node
\* again
AccessSetNext(r, th) ==
    [rm |-> [r EXCEPT !.free = th.id], th |-> [th EXCEPT !.pc = "is_empty"]]

\* the next access of insert_cell_in_free_slot(cell) by the operation th
InsertAccess(r, th, cell) ==
    IF th.pc = "is_empty" THEN AccessIsEmpty(r, th)
    ELSE IF th.pc = "create" THEN AccessCreate(r, th)
    ELSE IF th.pc = "set_created" THEN AccessSetCreated(r, th, cell)
    ELSE IF th.pc = "get_head" THEN AccessGetHead(r, th, cell)
    ELSE IF th.pc = "load_head" THEN AccessLoadHead(r, th, cell)
    ELSE IF th.pc = "load_node" THEN AccessLoadNode(r, th, cell)
    ELSE AccessSetNext(r, th)

InsertPositions ==
    {"is_empty", "create", "set_created", "get_head", "load_head", "load_node", "set_next"}

\* one access of insert_cell_in_free_slot of the next fragment of operation t
PairInsert(t) ==
    /\ sys.th[t].pc \in InsertPositions
    /\ sys' = [sys EXCEPT
          !.rm = InsertAccess(sys.rm, sys.th[t],
                              FragmentCell(t, Len(sys.th[t].written) + 1)).rm,
          !.th[t] = [InsertAccess(sys.rm, sys.th[t],
                                  FragmentCell(t, Len(sys.th[t].written) + 1)).th
                         EXCEPT !.begun = TRUE],
          !.overlap = @ \/ OtherUnderWay(t)]
    /\ UNCHANGED <<rm, mem, hist, ops, conc, vf, vh, mt>>

\* one RecordsManager::save of the loop of save_all_node_records
PairSave(t, id) ==
    /\ sys.th[t].pc = "save"
    /\ id \in sys.th[t].tosave
    /\ sys' = [sys EXCEPT
          !.rm = SaveRecord(PoolState(t), id).s.rm,
          !.th[t].tosave = @ \ {id},
          !.th[t].pc = IF sys.th[t].tosave = {id} THEN "done" ELSE "save",
          !.overlap = @ \/ OtherUnderWay(t)]
    /\ UNCHANGED <<rm, mem, hist, ops, conc, vf, vh, mt>>

PairNext ==
    \/ \E t \in Operations : PairInsert(t)
    \/ \E t \in Operations : \E id \in 1..4 : PairSave(t, id)

PairSpec == PairInit /\ [][PairNext]_vars

\* no location has been given to both operations
LocationsApart ==
    \A i \in 1..Len(sys.th[1].written) : \A j \in 1..Len(sys.th[2].written) :
        sys.th[1].written[i].loc # sys.th[2].written[j].loc

BothDone == \A t \in Operations : sys.th[t].pc = "done"

\* every fragment an operation wrote is in the store, where it was put
FragmentsOnDisk ==
    \A t \in Operations : \A i \in 1..Len(sys.th[t].written) :
        /\ sys.th[t].written[i].loc[1] \in 1..Len(sys.rm.recs)
        /\ CellAt(sys.rm.recs[sys.th[t].written[i].loc[1]],
                  sys.th[t].written[i].loc[2]) = sys.th[t].written[i].cell

\* C39: two index operations that run at once on one store, each with its
\* own pool and with the records manager locked for one record access at a
\* time, never write two different cells to the same free-cell location,
\* and when both have ended every fragment either of them wrote is on disk.
C39_ConcurrentFragmentsKept ==
    /\ LocationsApart
    /\ BothDone => FragmentsOnDisk

\* the first part alone and the second part alone
ConcurrentLocationsApart == LocationsApart

ConcurrentFragmentsOnDisk == BothDone => FragmentsOnDisk

\* when one operation has ended before the other begins, both parts hold
OneAfterTheOtherKeepsFragments ==
    ~sys.overlap => (LocationsApart /\ (BothDone => FragmentsOnDisk))


(***************************************************************************)
(* The WHERE clause of the cypher parser.  The parser is the token vector   *)
(* and an index; check looks at the token at the index, advance moves the   *)
(* index by one, require is check and advance or a syntax error, and        *)
(* make_ast_token makes the node of the token before the index.  A result   *)
(* is [ok, node, index]: the node parsed and the index after it, or a       *)
(* SyntaxError.                                                             *)
(* sys = [expr, style, tokens, parsed, result]: a boolean expression, the   *)
(* way it is written, the tokens of the clause, and the result of           *)
(* parse_where_clause once it has run.                                      *)
(***************************************************************************)
MaxTerms == 4

Token(type, value) == [token_type |-> type, token_value |-> value]

LiteralTypes == {"Integer", "Float", "True", "False", "StringType", "Parameter"}

check(tokens, index, type) == index <= Len(tokens) /\ tokens[index].token_type = type

make_ast_tag(tag) == [ast_tag |-> tag, childs |-> <<>>]

make_ast_token(tokens, index) ==
    [token_id |-> index - 1, token_value |-> tokens[index - 1].token_value,
     token_type |-> tokens[index - 1].token_type, childs |-> <<>>]

append(node, child) == [node EXCEPT !.childs = Append(@, child)]

Parsed(node, index) == [ok |-> TRUE, node |-> node, index |-> index]

SyntaxError(index) == [ok |-> FALSE, node |-> make_ast_tag("None"), index |-> index]

\* function calls are not among the expressions parsed here
parse_function_definition(tokens, index) == SyntaxError(index)

parse_boolean_expression_terminal(tokens, index, parent_node) ==
    IF index > Len(tokens) THEN SyntaxError(index)
    ELSE IF tokens[index].token_type \in LiteralTypes
    THEN Parsed(append(parent_node, make_ast_token(tokens, index + 1)), index + 1)
    ELSE IF tokens[index].token_type = "Identifier"
    THEN IF check(tokens, index + 1, "OpenParenthesis")
         THEN LET func == parse_function_definition(tokens, index + 1)
              IN  IF func.ok THEN Parsed(append(parent_node, func.node), func.index)
                  ELSE func
         ELSE IF check(tokens, index + 1, "Dot")
         THEN IF check(tokens, index + 2, "Identifier")
              THEN Parsed(parent_node, index + 3)
              ELSE SyntaxError(index + 2)
         ELSE SyntaxError(index + 1)
    ELSE SyntaxError(index)

\* an equality whose left side has been read: the right side, then the operator
EqualityFrom(tokens, index, eqop, K(_, _, _)) ==
    LET term == parse_boolean_expression_terminal(tokens, index, eqop)
    IN  IF term.ok THEN K(tokens, term.index, term.node) ELSE term

RECURSIVE parse_boolean_expression(_, _)
RECURSIVE parse_boolean_operator(_, _, _)
parse_boolean_operator(tokens, index, prev_expr) ==
    IF check(tokens, index, "And")
    THEN LET expr == parse_boolean_expression(tokens, index + 1)
             operator == make_ast_tag("AndOperator")
         IN  IF ~expr.ok THEN expr
             ELSE IF expr.node.ast_tag = "OrOperator"
             THEN Parsed([expr.node EXCEPT !.childs =
                              Append(Tail(@), append(append(operator, prev_expr), Head(@)))],
                         expr.index)
             ELSE Parsed(append(append(operator, prev_expr), expr.node), expr.index)
    ELSE IF check(tokens, index, "Or")
    THEN LET expr == parse_boolean_expression(tokens, index + 1)
             operator == make_ast_tag("OrOperator")
         IN  IF ~expr.ok THEN expr
             ELSE Parsed(append(append(operator, prev_expr), expr.node), expr.index)
    ELSE Parsed(prev_expr, index)

parse_boolean_expression(tokens, index) ==
    IF index > Len(tokens) THEN SyntaxError(index)
    ELSE IF tokens[index].token_type \in {"Integer", "Float", "Parameter", "True", "False"}
    THEN IF check(tokens, index + 1, "Equals")
         THEN EqualityFrom(tokens, index + 2, make_ast_tag("EqualityOperator"),
                           parse_boolean_operator)
         ELSE SyntaxError(index + 1)
    ELSE IF tokens[index].token_type = "Identifier"
    THEN IF check(tokens, index + 1, "OpenParenthesis")
         THEN LET func == parse_function_definition(tokens, index + 1)
              IN  IF ~func.ok THEN func
                  ELSE IF check(tokens, func.index, "Equals")
                  THEN EqualityFrom(tokens, func.index + 1,
                           append(make_ast_tag("EqualityOperator"), func.node),
                           parse_boolean_operator)
                  ELSE parse_boolean_operator(tokens, func.index, func.node)
         ELSE IF check(tokens, index + 1, "Dot")
         THEN IF check(tokens, index + 2, "Identifier")
              THEN IF check(tokens, index + 3, "Equals")
                   THEN EqualityFrom(tokens, index + 4,
                            append(make_ast_tag("EqualityOperator"),
                                append(append(make_ast_tag("ItemPropertyIdentifier"),
                                           make_ast_token(tokens, index + 1)),
                                       make_ast_token(tokens, index + 3))),
                            parse_boolean_operator)
                   ELSE SyntaxError(index + 3)
              ELSE SyntaxError(index + 2)
         ELSE SyntaxError(index + 1)
    ELSE IF tokens[index].token_type = "OpenParenthesis"
    THEN LET expr == parse_boolean_expression(tokens, index + 1)
         IN  IF ~expr.ok THEN expr
             ELSE IF check(tokens, expr.index, "CloseParenthesis")
             THEN parse_boolean_operator(tokens, expr.index + 1, expr.node)
             ELSE SyntaxError(expr.index)
    ELSE SyntaxError(index)

parse_where_clause(tokens, index, parent_node) ==
    IF check(tokens, index, "Where")
    THEN LET expr == parse_boolean_expression(tokens, index + 1)
         IN  IF expr.ok
             THEN Parsed(append(parent_node, append(make_ast_tag("Where"), expr.node)),
                         expr.index)
             ELSE expr
    ELSE Parsed(parent_node, index)

(* The expressions parsed.  A term <<kind, n>> is an equality whose right   *)
(* side is the integer n: n.x = n for kind "property", 1 = n for kind       *)
(* "integer".  <<op, l, r>> is l op r.                                      *)
TermKinds == {"property", "integer"}

RECURSIVE Exprs(_, _)
\* the expressions whose terms are numbered lo..hi from left to right
Exprs(lo, hi) ==
    IF lo = hi THEN {<<k, lo>> : k \in TermKinds}
    ELSE UNION {{<<op, l, r>> : op \in {"And", "Or"},
                                l \in Exprs(lo, m), r \in Exprs(m + 1, hi)} :
                m \in lo..(hi - 1)}

IsTerm(e) == Len(e) = 2

TermTokens(e) ==
    IF e[1] = "property"
    THEN <<Token("Identifier", "n"), Token("Dot", "."), Token("Identifier", "x"),
           Token("Equals", "="), Token("Integer", e[2])>>
    ELSE <<Token("Integer", 1), Token("Equals", "="), Token("Integer", e[2])>>

InParentheses(tokens) ==
    <<Token("OpenParenthesis", "(")>> \o tokens \o <<Token("CloseParenthesis", ")")>>

Styles == {"needed", "all"}

RECURSIVE Written(_, _, _)
\* the tokens of e as an operand of the operator above: with style "needed"
\* an OR below an AND is put in parentheses, with style "all" every operand
\* that has an operator
Written(e, above, style) ==
    IF IsTerm(e) THEN TermTokens(e)
    ELSE LET inner == Written(e[2], e[1], style)
                      \o <<Token(e[1], IF e[1] = "And" THEN "AND" ELSE "OR")>>
                      \o Written(e[3], e[1], style)
         IN  IF \/ style = "all" /\ above # "None"
                \/ style = "needed" /\ above = "And" /\ e[1] = "Or"
             THEN InParentheses(inner)
             ELSE inner

WhereTokens(e, style) == <<Token("Where", "WHERE")>> \o Written(e, "None", style)

WhereInit ==
    /\ \E n \in 1..MaxTerms : \E e \in Exprs(1, n) : \E style \in Styles :
           sys = [expr |-> e, style |-> style, tokens |-> WhereTokens(e, style),
                  parsed |-> FALSE, result |-> SyntaxError(1)]
    /\ rm = 0 /\ mem = 0 /\ hist = 0 /\ ops = 0 /\ conc = 0 /\ vf = 0 /\ vh = 0 /\ mt = 0

ParseWhere ==
    /\ ~sys.parsed
    /\ sys' = [sys EXCEPT !.parsed = TRUE,
                          !.result = parse_where_clause(sys.tokens, 1, make_ast_tag("Query"))]
    /\ UNCHANGED <<rm, mem, hist, ops, conc, vf, vh, mt>>

WhereNext == ParseWhere

WhereSpec == WhereInit /\ [][WhereNext]_vars

(* What an expression and what an AST say, whatever the order of the        *)
(* operands: a term is <<n>>, an operator <<op, the set of its operands>>,  *)
(* where the operands of an AND that are ANDs themselves count as operands  *)
(* of the first, and the same for OR.                                       *)
RECURSIVE ExprOperands(_, _)
RECURSIVE ExprReading(_)
ExprOperands(op, e) ==
    IF ~IsTerm(e) /\ e[1] = op
    THEN ExprOperands(op, e[2]) \cup ExprOperands(op, e[3])
    ELSE {ExprReading(e)}

ExprReading(e) == IF IsTerm(e) THEN <<e[2]>> ELSE <<e[1], ExprOperands(e[1], e)>>

OperatorOf(node) ==
    IF node.ast_tag = "AndOperator" THEN "And"
    ELSE IF node.ast_tag = "OrOperator" THEN "Or" ELSE "None"

RECURSIVE AstOperands(_, _)
RECURSIVE AstReading(_)
AstOperands(op, node) ==
    IF OperatorOf(node) = op
    THEN UNION {AstOperands(op, node.childs[i]) : i \in 1..Len(node.childs)}
    ELSE {AstReading(node)}

\* an equality is known by the value of its right side, its last child
AstReading(node) ==
    IF OperatorOf(node) = "None"
    THEN <<node.childs[Len(node.childs)].token_value>>
    ELSE <<OperatorOf(node), AstOperands(OperatorOf(node), node)>>

\* the boolean expression below the Where node of the result
WhereExpression == sys.result.node.childs[1].childs[1]

ReadAsWritten == AstReading(WhereExpression) = ExprReading(sys.expr)

\* C40: for a WHERE expression built from equality terms with AND, OR and
\* parentheses the AST of parse_boolean_expression has AND binding tighter
\* than OR and a sub-expression in parentheses as one operand, up to the
\* order of the operands.
C40_AndBindsTighterThanOr == sys.parsed => (sys.result.ok /\ ReadAsWritten)

\* every expression is parsed to the end without a syntax error
WhereParsedToTheEnd ==
    sys.parsed => (sys.result.ok /\ sys.result.index = Len(sys.tokens) + 1)

\* a AND b OR c, the first example of the claim, is read as Or(And(a, b), c)
AndThenOrReadAsWritten ==
    (sys.parsed /\ ~IsTerm(sys.expr) /\ sys.expr[1] = "Or"
       /\ ~IsTerm(sys.expr[2]) /\ sys.expr[2][1] = "And"
       /\ IsTerm(sys.expr[2][2]) /\ IsTerm(sys.expr[2][3]) /\ IsTerm(sys.expr[3]))
    => ReadAsWritten

\* a AND (b OR c), the second example of the claim
AndOfOrReadAsWritten ==
    (sys.parsed /\ ~IsTerm(sys.expr) /\ sys.expr[1] = "And"
       /\ IsTerm(sys.expr[2]) /\ ~IsTerm(sys.expr[3]) /\ sys.expr[3][1] = "Or")
    => ReadAsWritten

RECURSIVE AndsOfTerms(_)
\* every AND of e has two terms as its operands
AndsOfTerms(e) ==
    \/ IsTerm(e)
    \/ /\ e[1] = "And" => (IsTerm(e[2]) /\ IsTerm(e[3]))
       /\ AndsOfTerms(e[2])
       /\ AndsOfTerms(e[3])

\* the expressions in which AND stands between two terms only are read as
\* written
AndsOfTermsReadAsWritten == (sys.parsed /\ AndsOfTerms(sys.expr)) => ReadAsWritten

RECURSIVE OnlyOperator(_, _)
OnlyOperator(op, e) ==
    IsTerm(e) \/ (e[1] = op /\ OnlyOperator(op, e[2]) /\ OnlyOperator(op, e[3]))

\* so are the expressions with AND alone and those with OR alone
OneOperatorReadAsWritten ==
    (sys.parsed /\ \E op \in {"And", "Or"} : OnlyOperator(op, sys.expr)) => ReadAsWritten

\* a AND b AND c OR d, which has no parentheses, is not
LongAndThenOrReadAsWritten ==
    (sys.parsed /\ sys.style = "needed" /\ ~IsTerm(sys.expr) /\ sys.expr[1] = "Or"
       /\ OnlyOperator("And", sys.expr[2]) /\ IsTerm(sys.expr[3]))
    => ReadAsWritten
====
